---------------------------- MODULE Spec2Model ----------------------------
(***************************************************************************)
(* A state-machine model of the CX wait-free universal construction        *)
(* (CXMutationWF), of the StrongTryRIRWLock it guards its replicas with,   *)
(* of the CircularArray retire ring and of HazardPointersCX.               *)
(*                                                                         *)
(* Every action is one access to shared memory of one thread, together     *)
(* with the thread-local computation that follows it.  Atomics are         *)
(* sequentially consistent.                                                *)
(***************************************************************************)
EXTENDS Integers, Sequences, FiniteSets, TLC

(***************************************************************************)
(* Bounds of the model.                                                    *)
(***************************************************************************)
\* Largest thread id of the model: threads are 0 .. MaxTid.
MaxTid == 2
\* Number of try-lock calls the client threads of LockSpec make in all.
LockCalls == 4
\* Largest thread id of a thread that calls applyUpdate or applyRead.
MaxCxTid == 1
\* Nodes thread 0 allocates at most in a run, and nodes each other thread does.
MaxOps == 5
MaxOpsOther == 2
\* CircularArray::max_size (2000 in the source) and min_size (1000), scaled.
max_size == 2
min_size == 1
\* CXMutationWF::MAX_READ_TRIES (10 in the source), scaled.
MAX_READ_TRIES == 1

Tids == 0 .. MaxTid
CxTids == 0 .. MaxCxTid
Nodes == 0 .. (MaxOps + MaxCxTid * MaxOpsOther)

(***************************************************************************)
(* StrongTryRIRWLock: states of writerState and of the read indicator.     *)
(***************************************************************************)
NOLOCK == 0
HLOCK == 1
RLOCK == 2
WLOCK == 3
NOT_READING == 0
READING == 1

\* nullptr
NULL == -1
\* "no more slots" of a scan over the read indicator
NoSlot == -1
\* The sentinel node of the queue of mutations.
sentinel == 0
\* Indexes of the hazard pointers of a thread.
kHpTail == 0
kHpTailNext == 1
kHpHead == 2
kHpNext == 3
kHpMyNode == 4

VARIABLES
    active,     \* the thread ids that call into the object
    wstate,     \* wstate[c]: the packed (seq, state) word of lock c
    ri,         \* ri[c][t]: states[t] of lock c's RIStaticPerThread
    pc,         \* pc[t]: the position of thread t
    L,          \* L[t]: the local variables of thread t
    calls,      \* try-lock calls the lock's clients may still make
    seen,       \* seen[t]: during t's try-lock call the lock was seen owned
    cand,       \* cand[t]: overlapping try-lock calls not yet returned
    pending,    \* failed try-lock calls, each as the set of overlapping
                \* calls that may still justify the failure
    drain,      \* drain[t]: the lock was in state RLOCK at every instant of
                \* t's running try-lock call
    maxThreads, \* the constructor's argument
    ops,        \* ops[t]: operations thread t may still start
    warm,       \* operations thread 0 completes before the others start
    kinds,      \* kinds[t]: the operations thread t calls
    proc,       \* "run", or how the process ended: "abort", "crash"
    curComb,    \* the Combined that curComb designates
    head,       \* head[c]: combs[c].head
    obj,        \* obj[c]: combs[c].obj, as the sequence of the update nodes
                \* applied to the initial instance
    tail,       \* the tail of the queue of mutations
    enqueuers,  \* enqueuers[t]
    next,       \* next[n]: Node::next
    ticket,     \* ticket[n]: Node::ticket
    refcnt,     \* refcnt[n]: Node::refcnt
    result,     \* result[n]: Node::result
    mutation,   \* mutation[n]: "upd" or "read" once n is allocated
    mem,        \* mem[n]: "none" (not allocated), "live" or "freed"
    hp,         \* hp[t][i]: the hazard pointers of thread t
    ring,       \* ring[t]: preRetired[t], a CircularArray, with its min_size
    retired,    \* retired[t]: retiredList of thread t
    pubMax,     \* the largest head ticket curComb has ever designated
    done,       \* the update nodes whose applyUpdate has returned
    copyTime,   \* CXMutationWFTimed::copyTime, in microseconds
    nodeDone,   \* the nodes of CXMutationWFTimed whose Node::done is true
    counting    \* the run records, at the store of line 133, how many nodes
                \* the queue holds (L[t].pubAt)

lockVars == <<wstate, ri>>
ghostVars == <<seen, cand, pending, drain>>
nodeVars == <<next, ticket, refcnt, result, mutation, mem>>
queueVars == <<tail, enqueuers>>
combVars == <<curComb, head, obj>>
reclVars == <<hp, ring, retired>>
ctlVars == <<ops, warm, proc, pubMax, done>>
timedVars == <<copyTime, nodeDone>>
shared == <<wstate, ri, ops, warm, proc, pubMax, done, curComb, head, obj,
            tail, enqueuers, next, ticket, refcnt, result, mutation, mem,
            hp, ring, retired>>
cxVars == <<maxThreads, ops, warm, kinds, proc, curComb, head, obj, tail, enqueuers,
            next, ticket, refcnt, result, mutation, mem, hp, ring, retired,
            pubMax, done, copyTime, nodeDone, counting>>
vars == <<active, wstate, ri, pc, L, calls, seen, cand, pending, drain, maxThreads,
          ops, warm, kinds, proc, curComb, head, obj, tail, enqueuers, next, ticket,
          refcnt, result, mutation, mem, hp, ring, retired, pubMax, done,
          copyTime, nodeDone, counting>>

Locks == DOMAIN wstate

Min(S) == CHOOSE x \in S : \A y \in S : x <= y
Max(S) == CHOOSE x \in S : \A y \in S : x >= y

\* The object before any update, and what an unallocated object or an
\* unwritten result holds.
NullObj == <<NULL>>
Unwritten == <<NULL>>

\* Thread-local variables, and their values outside of any call.
L0 == [lk |-> NULL, ws |-> [seq |-> 0, state |-> NOLOCK], k |-> NoSlot,
       lretT |-> "idle", lretF |-> "idle",
       op |-> "none", myNode |-> NULL, myTicket |-> 0, newComb |-> NULL,
       lcomb |-> NULL, mn |-> NULL, i |-> 0, j |-> 0, ltail |-> NULL,
       lnext |-> NULL, nodeToHelp |-> NULL, node |-> NULL, eret |-> "idle",
       ei |-> 0, lhead |-> NULL, ret |-> <<>>,
       cpos |-> 0, ci |-> 0, csize |-> 0, mNode |-> NULL, cnext |-> NULL,
       iret |-> 0, it |-> 0, ihp |-> 0, robj |-> NULL,
       hret |-> "idle", lticket |-> 0, path |-> "none",
       start |-> 0, ispin |-> 0, timeus |-> 0, pubAt |-> 0]

(***************************************************************************)
(* RIStaticPerThread.  A lock's indicator has one slot per thread id; the  *)
(* slots of thread ids that never call stay NOT_READING, and a scan reads  *)
(* the slots of the calling threads in increasing order.                   *)
(***************************************************************************)
FirstSlot == IF active = {} THEN NoSlot ELSE Min(active)
SlotAfter(k) == IF \E u \in active : u > k
                THEN Min({u \in active : u > k}) ELSE NoSlot

\* isEmpty(): the test of one slot.
SlotBusyMut(c, k) == FALSE
SlotBusy(c, k) == ri[c][k] # NOT_READING

\* arrive(tid)
arrive(c, t) == [ri EXCEPT ![c][t] = READING]
\* depart(tid)
departNone(c, t) == ri
depart(c, t) == [ri EXCEPT ![c][t] = NOT_READING]
\* rollbackArrive(tid): fetch_add(-1); true iff the slot held READING.
rollbackArriveOk(c, t) == ri[c][t] = READING
rollbackArrive(c, t) == [ri EXCEPT ![c][t] = @ - 1]
\* abortRollback(), one slot: READING becomes READING+1.
abortRollbackSlot(c, k) ==
    IF ri[c][k] = READING THEN [ri EXCEPT ![c][k] = READING + 1] ELSE ri

\* Return from a lock call: the caller continues at lretT when the call
\* returns true (or returns nothing), at lretF when it returns false.
LockReturn(t, res) ==
    /\ pc' = [pc EXCEPT ![t] = IF res THEN L[t].lretT ELSE L[t].lretF]
    /\ L' = [L EXCEPT ![t].lk = NULL,
                       ![t].k = NoSlot,
                       ![t].ws = L0.ws,
                       ![t].lretT = "idle",
                       ![t].lretF = "idle"]

Goto(t, lbl) == pc' = [pc EXCEPT ![t] = lbl]

(***************************************************************************)
(* sharedTryLock(tid)                                                      *)
(***************************************************************************)
\* if (wstate.load().state == WLOCK) return false;
sharedTryLock_158(t) ==
    /\ pc[t] = "s158"
    /\ IF wstate[L[t].lk].state = WLOCK
       THEN LockReturn(t, FALSE)
       ELSE Goto(t, "s159") /\ UNCHANGED L
    /\ UNCHANGED lockVars

\* ri.arrive(tid);
sharedTryLock_159(t) ==
    /\ pc[t] = "s159"
    /\ ri' = arrive(L[t].lk, t)
    /\ Goto(t, "s160")
    /\ UNCHANGED <<wstate, L>>

\* What sharedTryLock returns for a state read after arriving, without a
\* rollback: true unless the state is WLOCK.
SharedAdmitsMut(st) == TRUE
SharedAdmitsReader(st) == st = NOLOCK
SharedAdmits(st) == st # WLOCK

\* StructData ws = wstate.load(); if (ws.state == HLOCK) ...
\* return (ws.state != WLOCK || ...)
sharedTryLock_160(t) ==
    /\ pc[t] = "s160"
    /\ LET w == wstate[L[t].lk] IN
       IF w.state = HLOCK
       THEN Goto(t, "s162") /\ L' = [L EXCEPT ![t].ws = w]
       ELSE IF SharedAdmits(w.state)
            THEN LockReturn(t, TRUE)
            ELSE Goto(t, "s165") /\ UNCHANGED L
    /\ UNCHANGED lockVars

\* if (wstate.compare_exchange_strong(ws, {ws.seq,NOLOCK})) return true;
sharedTryLock_162(t) ==
    /\ pc[t] = "s162"
    /\ LET c == L[t].lk IN
       IF wstate[c] = L[t].ws
       THEN /\ wstate' = [wstate EXCEPT ![c] = [seq |-> L[t].ws.seq,
                                                 state |-> NOLOCK]]
            /\ LockReturn(t, TRUE)
       ELSE /\ Goto(t, "s163")
            /\ UNCHANGED <<wstate, L>>
    /\ UNCHANGED ri

\* ws = wstate.load();  return (ws.state != WLOCK || ...)
sharedTryLock_163(t) ==
    /\ pc[t] = "s163"
    /\ IF SharedAdmits(wstate[L[t].lk].state)
       THEN LockReturn(t, TRUE)
       ELSE Goto(t, "s165") /\ UNCHANGED L
    /\ UNCHANGED lockVars

\* return (... || !ri.rollbackArrive(tid));
sharedTryLock_165(t) ==
    /\ pc[t] = "s165"
    /\ ri' = rollbackArrive(L[t].lk, t)
    /\ LockReturn(t, ~rollbackArriveOk(L[t].lk, t))
    /\ UNCHANGED wstate

(***************************************************************************)
(* exclusiveTryLock(tid)                                                   *)
(***************************************************************************)
\* The states of writerState for which exclusiveTryLock returns false at once.
ExclusiveRefusesMut(st) == st # NOLOCK
ExclusiveRefusesWriter(st) == st = WLOCK
ExclusiveRefuses(st) == st = WLOCK \/ st = RLOCK

\* StructData ws = wstate.load();
\* if (ws.state == WLOCK || ws.state == RLOCK) return false;
\* The first step of a call on lock c by a thread whose locals are loc and
\* that continues at backT or backF.
ExclusiveTryLockEntry(t, c, loc, backT, backF) ==
    LET w == wstate[c] IN
    IF ExclusiveRefuses(w.state)
    THEN /\ Goto(t, backF)
         /\ L' = [L EXCEPT ![t] = [loc EXCEPT !.lk = NULL, !.k = NoSlot,
                                              !.ws = L0.ws,
                                              !.lretT = "idle",
                                              !.lretF = "idle"]]
    ELSE /\ Goto(t, IF FirstSlot = NoSlot
                    THEN (IF w.state = HLOCK THEN "x182" ELSE "x186")
                    ELSE "x180")
         /\ L' = [L EXCEPT ![t] = [loc EXCEPT !.lk = c, !.ws = w,
                                              !.k = FirstSlot,
                                              !.lretT = backT,
                                              !.lretF = backF]]

exclusiveTryLock_178(t) ==
    /\ pc[t] = "x178"
    /\ ExclusiveTryLockEntry(t, L[t].lk, L[t], L[t].lretT, L[t].lretF)
    /\ UNCHANGED lockVars

\* if (!ri.isEmpty()) return false;   (one slot)
exclusiveTryLock_180(t) ==
    /\ pc[t] = "x180"
    /\ IF SlotBusy(L[t].lk, L[t].k)
       THEN LockReturn(t, FALSE)
       ELSE LET n == SlotAfter(L[t].k) IN
            /\ L' = [L EXCEPT ![t].k = n]
            /\ Goto(t, IF n # NoSlot THEN "x180"
                       ELSE IF L[t].ws.state = HLOCK THEN "x182" ELSE "x186")
    /\ UNCHANGED lockVars

\* if (ws.state == HLOCK) { if(ws!=wstate.load()) return false;
exclusiveTryLock_182(t) ==
    /\ pc[t] = "x182"
    /\ IF wstate[L[t].lk] # L[t].ws
       THEN LockReturn(t, FALSE)
       ELSE Goto(t, "x183") /\ UNCHANGED L
    /\ UNCHANGED lockVars

\* return wstate.compare_exchange_strong(ws, {ws.seq, WLOCK});
exclusiveTryLock_183(t) ==
    /\ pc[t] = "x183"
    /\ LET c == L[t].lk IN
       IF wstate[c] = L[t].ws
       THEN /\ wstate' = [wstate EXCEPT ![c] = [seq |-> L[t].ws.seq,
                                                 state |-> WLOCK]]
            /\ LockReturn(t, TRUE)
       ELSE /\ LockReturn(t, FALSE)
            /\ UNCHANGED wstate
    /\ UNCHANGED ri

\* StructData next = {ws.seq+1,HLOCK}; wstate.compare_exchange_strong(ws, next);
\* (from here on L[t].ws holds next)
exclusiveTryLock_186(t) ==
    /\ pc[t] = "x186"
    /\ LET c == L[t].lk
           nxt == [seq |-> L[t].ws.seq + 1, state |-> HLOCK] IN
       /\ wstate' = IF wstate[c] = L[t].ws
                    THEN [wstate EXCEPT ![c] = nxt] ELSE wstate
       /\ L' = [L EXCEPT ![t].ws = nxt,
                       ![t].k = FirstSlot]
       /\ Goto(t, IF FirstSlot = NoSlot THEN "x188" ELSE "x187")
    /\ UNCHANGED ri

\* if (!ri.isEmpty()) return false;   (one slot)
exclusiveTryLock_187(t) ==
    /\ pc[t] = "x187"
    /\ IF SlotBusy(L[t].lk, L[t].k)
       THEN LockReturn(t, FALSE)
       ELSE LET n == SlotAfter(L[t].k) IN
            /\ L' = [L EXCEPT ![t].k = n]
            /\ Goto(t, IF n # NoSlot THEN "x187" ELSE "x188")
    /\ UNCHANGED lockVars

\* if (wstate.load()!=next) return false;
exclusiveTryLock_188(t) ==
    /\ pc[t] = "x188"
    /\ IF wstate[L[t].lk] # L[t].ws
       THEN LockReturn(t, FALSE)
       ELSE Goto(t, "x189") /\ UNCHANGED L
    /\ UNCHANGED lockVars

\* return wstate.compare_exchange_strong(next, {next.seq,WLOCK});
exclusiveTryLock_189(t) ==
    /\ pc[t] = "x189"
    /\ LET c == L[t].lk IN
       IF wstate[c] = L[t].ws
       THEN /\ wstate' = [wstate EXCEPT ![c] = [seq |-> L[t].ws.seq,
                                                 state |-> WLOCK]]
            /\ LockReturn(t, TRUE)
       ELSE /\ LockReturn(t, FALSE)
            /\ UNCHANGED wstate
    /\ UNCHANGED ri

(***************************************************************************)
(* exclusiveUnlock(), downgrade(), setReadUnlock(), setReadLock().         *)
(* Each plain store writes the seq it has just loaded; the load and the    *)
(* store are one step.                                                     *)
(***************************************************************************)
StoreState(c, st) == [wstate EXCEPT ![c] = [seq |-> wstate[c].seq, state |-> st]]

\* What downgrade() and the first store of exclusiveUnlock() write.
DrainStateMut == NOLOCK
DrainState == RLOCK

\* exclusiveUnlock(): StructData ws = wstate.load(relaxed);
\* wstate.store({ws.seq, RLOCK});  then abortRollback, then the NOLOCK store
exclusiveUnlock_198(t, c, back) ==
    /\ wstate' = StoreState(c, DrainState)
    /\ L' = [L EXCEPT ![t].lk = c,
                       ![t].k = FirstSlot,
                       ![t].lretT = back,
                       ![t].lretF = back]
    /\ Goto(t, IF FirstSlot = NoSlot THEN "u201" ELSE "u200")
    /\ UNCHANGED ri

\* downgrade(): wstate.store({ws.seq, RLOCK});  then abortRollback
downgrade_216(t, c, back) ==
    /\ wstate' = StoreState(c, DrainState)
    /\ L' = [L EXCEPT ![t].lk = c,
                       ![t].k = FirstSlot,
                       ![t].lretT = back,
                       ![t].lretF = back]
    /\ Goto(t, IF FirstSlot = NoSlot THEN back ELSE "d218")
    /\ UNCHANGED ri

\* setReadUnlock(): wstate.store({ws.seq, NOLOCK});
setReadUnlockMut(c) == StoreState(c, RLOCK)
setReadUnlock(c) == StoreState(c, NOLOCK)
\* setReadLock(): wstate.store({ws.seq, RLOCK});
setReadLockNone(w) == w
setReadLock(w) == [seq |-> w.seq, state |-> RLOCK]

\* ri.abortRollback() of exclusiveUnlock, one slot
exclusiveUnlock_200(t) ==
    /\ pc[t] = "u200"
    /\ ri' = abortRollbackSlot(L[t].lk, L[t].k)
    /\ LET n == SlotAfter(L[t].k) IN
       /\ L' = [L EXCEPT ![t].k = n]
       /\ Goto(t, IF n # NoSlot THEN "u200" ELSE "u201")
    /\ UNCHANGED wstate

\* wstate.store({ws.seq, NOLOCK});
exclusiveUnlock_201(t) ==
    /\ pc[t] = "u201"
    /\ wstate' = StoreState(L[t].lk, NOLOCK)
    /\ LockReturn(t, TRUE)
    /\ UNCHANGED ri

\* ri.abortRollback() of downgrade, one slot
downgrade_218(t) ==
    /\ pc[t] = "d218"
    /\ ri' = abortRollbackSlot(L[t].lk, L[t].k)
    /\ LET n == SlotAfter(L[t].k) IN
       IF n # NoSlot
       THEN L' = [L EXCEPT ![t].k = n] /\ UNCHANGED pc
       ELSE LockReturn(t, TRUE)
    /\ UNCHANGED wstate

(***************************************************************************)
(* A client of one lock (lock 0), using it the way the construct does:     *)
(* a shared hold ends with sharedUnlock; an exclusive hold ends with       *)
(* exclusiveUnlock, or with downgrade followed later by setReadUnlock.     *)
(***************************************************************************)
CallLock(t, c, entry, backT, backF) ==
    /\ pc' = [pc EXCEPT ![t] = entry]
    /\ L' = [L EXCEPT ![t].lk = c,
                       ![t].lretT = backT,
                       ![t].lretF = backF]

ClientSharedTryLock(t) ==
    /\ pc[t] = "idle" /\ t \in active /\ calls > 0
    /\ calls' = calls - 1
    /\ CallLock(t, 0, "s158", "c_sheld", "idle")
    /\ UNCHANGED lockVars

ClientSharedUnlock(t) ==
    /\ pc[t] = "c_sheld"
    /\ ri' = depart(0, t)
    /\ Goto(t, "idle")
    /\ UNCHANGED <<wstate, L, calls>>

ClientExclusiveTryLock(t) ==
    /\ pc[t] = "idle" /\ t \in active /\ calls > 0
    /\ calls' = calls - 1
    /\ CallLock(t, 0, "x178", "c_xheld", "idle")
    /\ UNCHANGED lockVars

ClientExclusiveUnlock(t) ==
    /\ pc[t] = "c_xheld"
    /\ exclusiveUnlock_198(t, 0, "idle")
    /\ UNCHANGED calls

ClientDowngrade(t) ==
    /\ pc[t] = "c_xheld"
    /\ downgrade_216(t, 0, "c_hheld")
    /\ UNCHANGED calls

ClientSetReadUnlock(t) ==
    /\ pc[t] = "c_hheld"
    /\ wstate' = setReadUnlock(0)
    /\ Goto(t, "idle")
    /\ UNCHANGED <<ri, L, calls>>

(***************************************************************************)
(* Who holds a lock.  Exclusive: from the successful exclusiveTryLock to   *)
(* the call of exclusiveUnlock or downgrade.  Shared: from the true        *)
(* sharedTryLock to sharedUnlock.                                          *)
(***************************************************************************)
HoldsExclusive(t, c) == pc[t] = "c_xheld" /\ c = 0
HoldsShared(t, c) == pc[t] = "c_sheld" /\ c = 0

SharedTryPcs == {"s158", "s159", "s160", "s162", "s163", "s165"}
ExclusiveTryPcs == {"x178", "x180", "x182", "x183", "x186", "x187", "x188", "x189"}
TryPcs == SharedTryPcs \cup ExclusiveTryPcs

(***************************************************************************)
(* History variables for the try-lock calls.  seen[t]: at some instant of  *)
(* t's running call the lock was owned by another thread in the way that   *)
(* justifies a failure of that call.  cand[t]: the try-lock calls of       *)
(* other threads that overlap t's call and have not returned.  A call that *)
(* fails without seen is recorded in `pending' with its cand; an           *)
(* overlapping call that returns true justifies it, one that returns false *)
(* is removed from it.                                                     *)
(***************************************************************************)
OwnedAgainst(t, c, P, W, R) ==
    IF P[t] \in SharedTryPcs
    THEN \E u \in Tids \ {t} : P[u] = "c_xheld"
    ELSE \/ \E u \in Tids \ {t} : P[u] \in {"c_xheld", "c_sheld"}
         \/ W[c].state = RLOCK

LockHistory(me) ==
    LET ret == pc[me] \in TryPcs /\ pc'[me] \notin TryPcs
        retT == ret /\ pc'[me] = L[me].lretT
        retF == ret /\ ~retT
        inTry(u) == pc'[u] \in TryPcs
    IN
    /\ seen' = [t \in Tids |->
                  IF ~inTry(t) THEN FALSE
                  ELSE (pc[t] \in TryPcs /\ seen[t])
                       \/ OwnedAgainst(t, 0, pc', wstate', ri')]
    /\ cand' = [t \in Tids |->
                  IF ~inTry(t) THEN {}
                  ELSE ((IF pc[t] \in TryPcs THEN cand[t] ELSE {})
                        \cup {u \in Tids \ {t} : inTry(u)})
                       \ (IF ret THEN {me} ELSE {})]
    /\ drain' = [t \in Tids |->
                   /\ inTry(t)
                   /\ pc[t] \in TryPcs => drain[t]
                   /\ wstate'[0].state = RLOCK]
    /\ pending' =
         LET kept == IF retT THEN {S \in pending : me \notin S}
                     ELSE IF retF THEN {S \ {me} : S \in pending}
                     ELSE pending
             new == IF retF /\ ~seen[me]
                    THEN {IF pc[me] \in SharedTryPcs THEN {} ELSE cand[me]}
                    ELSE {}
         IN kept \cup new

(***************************************************************************)
(* LockSpec: the threads use one lock concurrently.                        *)
(***************************************************************************)
LockInit ==
    /\ active = Tids
    /\ \E h \in {NULL, 0} :
         /\ wstate = (0 :> IF h = NULL THEN [seq |-> 0, state |-> NOLOCK]
                           ELSE setReadLock([seq |-> 0, state |-> NOLOCK]))
         /\ pc = [t \in Tids |-> IF t = h THEN "c_hheld" ELSE "idle"]
    /\ ri = (0 :> [t \in Tids |-> NOT_READING])
    /\ L = [t \in Tids |-> L0]
    /\ calls = LockCalls
    /\ seen = [t \in Tids |-> FALSE]
    /\ cand = [t \in Tids |-> {}]
    /\ pending = {}
    /\ drain = [t \in Tids |-> FALSE]
    /\ maxThreads = MaxTid + 1
    /\ ops = [t \in Tids |-> 0]
    /\ warm = 0
    /\ kinds = <<>>
    /\ proc = "run"
    /\ curComb = NULL
    /\ head = <<>>
    /\ obj = <<>>
    /\ tail = NULL
    /\ enqueuers = <<>>
    /\ next = <<>>
    /\ ticket = <<>>
    /\ refcnt = <<>>
    /\ result = <<>>
    /\ mutation = <<>>
    /\ mem = <<>>
    /\ hp = <<>>
    /\ ring = <<>>
    /\ retired = <<>>
    /\ pubMax = 0
    /\ done = {}
    /\ copyTime = 0
    /\ nodeDone = {}
    /\ counting = FALSE

\* What a step of the lock, and a step of its client, leave alone.
LockFrame(t) == LockHistory(t) /\ UNCHANGED <<calls, active, cxVars>>
ClientFrame(t) == LockHistory(t) /\ UNCHANGED <<active, cxVars>>

LockNext ==
    \E t \in Tids :
        \/ sharedTryLock_158(t) /\ LockFrame(t)
        \/ sharedTryLock_159(t) /\ LockFrame(t)
        \/ sharedTryLock_160(t) /\ LockFrame(t)
        \/ sharedTryLock_162(t) /\ LockFrame(t)
        \/ sharedTryLock_163(t) /\ LockFrame(t)
        \/ sharedTryLock_165(t) /\ LockFrame(t)
        \/ exclusiveTryLock_178(t) /\ LockFrame(t)
        \/ exclusiveTryLock_180(t) /\ LockFrame(t)
        \/ exclusiveTryLock_182(t) /\ LockFrame(t)
        \/ exclusiveTryLock_183(t) /\ LockFrame(t)
        \/ exclusiveTryLock_186(t) /\ LockFrame(t)
        \/ exclusiveTryLock_187(t) /\ LockFrame(t)
        \/ exclusiveTryLock_188(t) /\ LockFrame(t)
        \/ exclusiveTryLock_189(t) /\ LockFrame(t)
        \/ exclusiveUnlock_200(t) /\ LockFrame(t)
        \/ exclusiveUnlock_201(t) /\ LockFrame(t)
        \/ downgrade_218(t) /\ LockFrame(t)
        \/ ClientSharedTryLock(t) /\ ClientFrame(t)
        \/ ClientSharedUnlock(t) /\ ClientFrame(t)
        \/ ClientExclusiveTryLock(t) /\ ClientFrame(t)
        \/ ClientExclusiveUnlock(t) /\ ClientFrame(t)
        \/ ClientDowngrade(t) /\ ClientFrame(t)
        \/ ClientSetReadUnlock(t) /\ ClientFrame(t)

LockSpec == LockInit /\ [][LockNext]_vars

(***************************************************************************)
(* CXMutationWF.  Nodes are numbered so that the k-th node a thread        *)
(* allocates has a fixed number; node 0 is the sentinel.                   *)
(***************************************************************************)
Combs == DOMAIN head

\* Node::enqTid
enqTid(n) == IF n <= MaxOps THEN 0 ELSE 1 + ((n - MaxOps - 1) \div MaxOpsOther)

\* new Node(..., tid): the node the allocation returns
NewNode(t) == Min({n \in Nodes : n # sentinel /\ enqTid(n) = t /\ mem[n] = "none"})

\* The nodes with a ticket in 1 .. k-1 in ticket order, as the sequence of
\* those that are updates: the object after the sequential execution of the
\* log up to ticket k, exclusive.
NodeOfTicket(i) == CHOOSE n \in Nodes : n # sentinel /\ ticket[n] = i
RECURSIVE LogBelow(_)
LogBelow(k) ==
    IF k <= 1 THEN <<>>
    ELSE LogBelow(k - 1)
         \o (IF mutation[NodeOfTicket(k - 1)] = "upd"
             THEN <<NodeOfTicket(k - 1)>> ELSE <<>>)

(***************************************************************************)
(* enqueue(myNode, tid).  L[t].ei is the i of enqueue's loop.              *)
(***************************************************************************)
EnqReturn(t) ==
    /\ Goto(t, L[t].eret)
    /\ L' = [L EXCEPT ![t].ei = 0, ![t].j = 0, ![t].ltail = NULL,
                       ![t].lnext = NULL, ![t].nodeToHelp = NULL,
                       ![t].eret = "idle", ![t].pubAt = 0]

\* The number of nodes linked into the queue: the position of its last
\* node, which is tail or the next of tail.
LinkedCount == IF next[tail] = NULL THEN ticket[tail] ELSE ticket[tail] + 1

\* What a run that counts records at enqueuers[tid].store(myNode).
Published == IF counting THEN LinkedCount ELSE 0

\* continue, or the end of the body of the loop: i++ and the test of i
EnqContinueOnce(t) ==
    /\ Goto(t, "e160")
    /\ L' = [L EXCEPT ![t].ei = @ + 1, ![t].j = 0, ![t].ltail = NULL,
                       ![t].lnext = NULL, ![t].nodeToHelp = NULL]
EnqContinue(t) ==
    /\ Goto(t, IF L[t].ei + 1 < maxThreads THEN "e135" ELSE "e160")
    /\ L' = [L EXCEPT ![t].ei = @ + 1, ![t].j = 0, ![t].ltail = NULL,
                       ![t].lnext = NULL, ![t].nodeToHelp = NULL]

\* if (enqueuers[tid].load() == nullptr) return;
enqueue_135(t) ==
    /\ pc[t] = "e135"
    /\ IF enqueuers[t] = NULL
       THEN EnqReturn(t)
       ELSE Goto(t, "e139") /\ UNCHANGED L
    /\ UNCHANGED shared

\* Node* ltail = hp.protectPtr(kHpTail, tail.load(), tid);   the load
enqueue_139(t) ==
    /\ pc[t] = "e139"
    /\ L' = [L EXCEPT ![t].ltail = tail]
    /\ Goto(t, "e139h")
    /\ UNCHANGED shared

\* hp.protectPtr(kHpTail, ...): the store of the hazard pointer
enqueue_139h(t) ==
    /\ pc[t] = "e139h"
    /\ hp' = [hp EXCEPT ![t][kHpTail] = L[t].ltail]
    /\ Goto(t, "e140")
    /\ UNCHANGED <<L, lockVars, ctlVars, combVars, queueVars, nodeVars,
                   ring, retired>>

\* if (ltail != tail.load()) continue;
enqueue_140(t) ==
    /\ pc[t] = "e140"
    /\ IF L[t].ltail # tail
       THEN EnqContinue(t)
       ELSE Goto(t, "e141") /\ UNCHANGED L
    /\ UNCHANGED shared

\* if (enqueuers[ltail->enqTid].load() == ltail)
\*     enqueuers[ltail->enqTid].compare_exchange_strong(tmp, nullptr);
enqueue_141(t) ==
    /\ pc[t] = "e141"
    /\ LET h == enqTid(L[t].ltail) IN
       enqueuers' = IF enqueuers[h] = L[t].ltail
                    THEN [enqueuers EXCEPT ![h] = NULL] ELSE enqueuers
    /\ L' = [L EXCEPT ![t].j = 1]
    /\ Goto(t, "e146")
    /\ UNCHANGED <<lockVars, ctlVars, combVars, tail, nodeVars, reclVars>>

\* (j + ltail->enqTid) % maxThreads
HelpSlotFirst(j, lt) == (j - 1) % maxThreads
HelpSlot(j, lt) == (j + enqTid(lt)) % maxThreads

\* Node* nodeToHelp = enqueuers[(j + ltail->enqTid) % maxThreads].load();
\* if (nodeToHelp == nullptr) continue;
enqueue_146(t) ==
    /\ pc[t] = "e146"
    /\ LET nth == enqueuers[HelpSlot(L[t].j, L[t].ltail)] IN
       IF nth = NULL
       THEN /\ L' = [L EXCEPT ![t].j = @ + 1]
            /\ Goto(t, IF L[t].j + 1 < maxThreads + 1 THEN "e146" ELSE "e152")
       ELSE /\ L' = [L EXCEPT ![t].nodeToHelp = nth]
            /\ Goto(t, "e149")
    /\ UNCHANGED shared

\* The next pointers after ltail->next.compare_exchange_strong(nodenull, n)
LinkAfterStore(lt, n) == [next EXCEPT ![lt] = n]
LinkAfterUnlinked(lt, n) ==
    IF next[lt] \in {NULL, lt} THEN [next EXCEPT ![lt] = n] ELSE next
LinkAfter(lt, n) == IF next[lt] = NULL THEN [next EXCEPT ![lt] = n] ELSE next

\* ltail->next.compare_exchange_strong(nodenull, nodeToHelp); break;
enqueue_149(t) ==
    /\ pc[t] = "e149"
    /\ next' = LinkAfter(L[t].ltail, L[t].nodeToHelp)
    /\ Goto(t, "e152")
    /\ UNCHANGED <<L, lockVars, ctlVars, combVars, queueVars, ticket, refcnt,
                   result, mutation, mem, reclVars>>

\* Node* lnext = ltail->next.load();  if (lnext != nullptr) {
enqueue_152(t) ==
    /\ pc[t] = "e152"
    /\ IF next[L[t].ltail] = NULL
       THEN EnqContinue(t)
       ELSE /\ L' = [L EXCEPT ![t].lnext = next[L[t].ltail]]
            /\ Goto(t, "e154")
    /\ UNCHANGED shared

\* hp.protectPtr(kHpTailNext, lnext, tid);
enqueue_154(t) ==
    /\ pc[t] = "e154"
    /\ hp' = [hp EXCEPT ![t][kHpTailNext] = L[t].lnext]
    /\ Goto(t, "e155")
    /\ UNCHANGED <<L, lockVars, ctlVars, combVars, queueVars, nodeVars,
                   ring, retired>>

\* if (ltail != tail.load()) continue;
enqueue_155(t) ==
    /\ pc[t] = "e155"
    /\ IF L[t].ltail # tail
       THEN EnqContinue(t)
       ELSE Goto(t, "e156") /\ UNCHANGED L
    /\ UNCHANGED shared

\* The value stored in lnext->ticket: ltail->ticket.load(relaxed) + 1
TicketAfterTail(lt) == ticket[tail] + 1
TicketAfter(lt) == ticket[lt] + 1

\* lnext->ticket.store(ltail->ticket.load(relaxed) + 1, relaxed);
enqueue_156(t) ==
    /\ pc[t] = "e156"
    /\ ticket' = [ticket EXCEPT ![L[t].lnext] = TicketAfter(L[t].ltail)]
    /\ Goto(t, "e157")
    /\ UNCHANGED <<L, lockVars, ctlVars, combVars, queueVars, next, refcnt,
                   result, mutation, mem, reclVars>>

\* tail.compare_exchange_strong(ltail, lnext);   and the end of the body
enqueue_157(t) ==
    /\ pc[t] = "e157"
    /\ tail' = IF tail = L[t].ltail THEN L[t].lnext ELSE tail
    /\ EnqContinue(t)
    /\ UNCHANGED <<lockVars, ctlVars, combVars, enqueuers, nodeVars, reclVars>>

\* enqueuers[tid].store(nullptr, release);
enqueue_160(t) ==
    /\ pc[t] = "e160"
    /\ enqueuers' = [enqueuers EXCEPT ![t] = NULL]
    /\ EnqReturn(t)
    /\ UNCHANGED <<lockVars, ctlVars, combVars, tail, nodeVars, reclVars>>

(***************************************************************************)
(* Combined::updateHead(mn), called on newComb with the local mn.          *)
(***************************************************************************)
\* mn->refcnt.fetch_add(1);
updateHead_81(t) ==
    /\ pc[t] = "h81"
    /\ refcnt' = [refcnt EXCEPT ![L[t].mn] = @ + 1]
    /\ Goto(t, "h82")
    /\ UNCHANGED <<L, lockVars, ctlVars, combVars, queueVars, next, ticket,
                   result, mutation, mem, reclVars>>

\* if (head != nullptr) head->refcnt.fetch_add(-1);
HeadKept(c) == refcnt
HeadReleased(c) ==
    IF head[c] # NULL THEN [refcnt EXCEPT ![head[c]] = @ - 1] ELSE refcnt

\* if (head != nullptr) head->refcnt.fetch_add(-1);  head = mn;
updateHead_82(t) ==
    /\ pc[t] = "h82"
    /\ LET c == L[t].newComb IN
       /\ refcnt' = HeadReleased(c)
       /\ head' = [head EXCEPT ![c] = L[t].mn]
    /\ Goto(t, L[t].hret)
    /\ L' = [L EXCEPT ![t].hret = "idle"]
    /\ UNCHANGED <<lockVars, ctlVars, curComb, obj, queueVars, next, ticket,
                   result, mutation, mem, reclVars>>

(***************************************************************************)
(* applyUpdate(mutativeFunc, tid)                                          *)
(***************************************************************************)
\* The number of Combined instances: combs = new Combined[2*maxThreads]
NumCombsMut(mt) == mt
NumCombs(mt) == 2 * mt

\* Node* myNode = new Node(mutativeFunc, tid);
\* hp.protectPtrRelease(kHpMyNode, myNode, tid);
\* enqueue(myNode, tid):  enqueuers[tid].store(myNode);
applyUpdate_212(t) ==
    /\ pc[t] = "idle" /\ t \in active /\ ops[t] > 0
    /\ t = 0 \/ warm = 0
    /\ "upd" \in kinds[t]
    /\ LET n == NewNode(t) IN
       /\ mem' = [mem EXCEPT ![n] = "live"]
       /\ mutation' = [mutation EXCEPT ![n] = "upd"]
       /\ hp' = [hp EXCEPT ![t][kHpMyNode] = n]
       /\ enqueuers' = [enqueuers EXCEPT ![t] = n]
       /\ L' = [L EXCEPT ![t].op = "upd", ![t].myNode = n, ![t].eret = "u215",
                         ![t].pubAt = Published]
    /\ ops' = [ops EXCEPT ![t] = @ - 1]
    /\ Goto(t, "e135")
    /\ UNCHANGED <<lockVars, warm, proc, pubMax, done, combVars, tail, next,
                   ticket, refcnt, result, ring, retired>>

\* const uint64_t myTicket = myNode->ticket.load();
\* for (int i = 0; ...) if (combs[i].rwLock.exclusiveTryLock(tid)): the call
applyUpdate_215(t) ==
    /\ pc[t] = "u215"
    /\ ExclusiveTryLockEntry(t, 0,
           [L[t] EXCEPT !.myTicket = ticket[L[t].myNode], !.i = 0],
           "u228", "u218")
    /\ UNCHANGED shared

\* The next index of the scan for (int i = 0; i < 2*maxThreads; i++) over
\* n Combined instances
ScanNextMut(i, n) == (i + 1) % n
ScanNext(i, n) == i + 1

\* exclusiveTryLock returned false: i++ and the next call, or the end of
\* the loop with newComb == nullptr
applyUpdate_218(t) ==
    /\ pc[t] = "u218"
    /\ LET i1 == ScanNext(L[t].i, NumCombs(maxThreads)) IN
       IF i1 < NumCombs(maxThreads)
       THEN ExclusiveTryLockEntry(t, i1, [L[t] EXCEPT !.i = i1],
                                  "u228", "u218")
       ELSE /\ Goto(t, "u224")
            /\ L' = [L EXCEPT ![t].i = 0]
    /\ UNCHANGED shared

\* if (newComb == nullptr) { std::cout << "ERROR: ..."; assert(false); }
\* Node* mn = newComb->head;
\* The assertion aborts the process; compiled out (NDEBUG), newComb->head
\* dereferences a null pointer.
applyUpdate_224(t) ==
    /\ pc[t] = "u224"
    /\ \E how \in {"abort", "crash"} : proc' = how
    /\ UNCHANGED <<pc, L, lockVars, ops, warm, pubMax, done, combVars,
                   queueVars, nodeVars, reclVars>>

\* mn != nullptr && mn->ticket.load() >= myTicket
HeadCoversMut(m, k) == m # NULL
HeadCovers(m, k) == m # NULL /\ ticket[m] >= k

\* newComb = &combs[i];  Node* mn = newComb->head;
\* if (mn != nullptr && mn->ticket.load() >= myTicket)
applyUpdate_228(t) ==
    /\ pc[t] = "u228"
    /\ LET c == L[t].i
           m == head[c] IN
       /\ L' = [L EXCEPT ![t].newComb = c, ![t].mn = m, ![t].i = 0,
                          ![t].path = IF HeadCovers(m, L[t].myTicket)
                                      THEN "early" ELSE "none"]
       /\ Goto(t, IF HeadCovers(m, L[t].myTicket) THEN "u230" ELSE "u236")
    /\ UNCHANGED shared

\* newComb->rwLock.exclusiveUnlock();  return myNode->result.load();
applyUpdate_230(t) ==
    /\ pc[t] = "u230"
    /\ exclusiveUnlock_198(t, L[t].newComb, "uret")
    /\ UNCHANGED <<ctlVars, combVars, queueVars, nodeVars, reclVars>>

\* while (mn != myNode) {  if (mn == nullptr || mn == mn->next.load())
\*   if (lcomb != nullptr || (lcomb = getCombined(myTicket,tid)) == nullptr)
applyUpdate_236(t) ==
    /\ pc[t] = "u236"
    /\ IF L[t].mn = L[t].myNode
       THEN Goto(t, "h81") /\ L' = [L EXCEPT ![t].hret = "u257"]
       ELSE IF L[t].mn = NULL \/ next[L[t].mn] = L[t].mn
            THEN IF L[t].lcomb # NULL
                 THEN Goto(t, "u238") /\ L' = [L EXCEPT ![t].path = "nopeer"]
                 ELSE Goto(t, "g112") /\ UNCHANGED L
            ELSE Goto(t, "u250") /\ UNCHANGED L
    /\ UNCHANGED shared

\* if (mn != nullptr) newComb->updateHead(mn);
\* newComb->rwLock.exclusiveUnlock();
applyUpdate_238(t) ==
    /\ pc[t] = "u238"
    /\ IF L[t].mn # NULL
       THEN /\ Goto(t, "h81")
            /\ L' = [L EXCEPT ![t].hret = "u239"]
            /\ UNCHANGED lockVars
       ELSE exclusiveUnlock_198(t, L[t].newComb, "uret")
    /\ UNCHANGED <<ctlVars, combVars, queueVars, nodeVars, reclVars>>

\* newComb->rwLock.exclusiveUnlock();  return myNode->result.load();
applyUpdate_239(t) ==
    /\ pc[t] = "u239"
    /\ exclusiveUnlock_198(t, L[t].newComb, "uret")
    /\ UNCHANGED <<ctlVars, combVars, queueVars, nodeVars, reclVars>>

(***************************************************************************)
(* getCombined(myTicket, tid), called by applyUpdate with lcomb == nullptr *)
(***************************************************************************)
GetCombinedReturn(t, c, lbl) ==
    /\ Goto(t, lbl)
    /\ L' = [L EXCEPT ![t].lcomb = c, ![t].i = 0, ![t].lhead = NULL,
                       ![t].lticket = 0,
                       ![t].path = IF c = NULL THEN "nopeer" ELSE "none"]

\* for (int i = 0; i < maxThreads; i++) {  Combined* lcomb = curComb.load();
\*   if (!lcomb->rwLock.sharedTryLock(tid)) continue;       the call
\* At "g112c" a continue precedes: i++ and the test of i.
getCombined_112(t) ==
    /\ pc[t] \in {"g112", "g112c"}
    /\ LET i1 == IF pc[t] = "g112" THEN 0 ELSE L[t].i + 1 IN
       IF i1 < maxThreads
       THEN /\ Goto(t, "s158")
            /\ L' = [L EXCEPT ![t].i = i1, ![t].lcomb = curComb,
                               ![t].lk = curComb, ![t].lretT = "g114",
                               ![t].lretF = "g112c"]
       ELSE GetCombinedReturn(t, NULL, "u238")
    /\ UNCHANGED shared

\* The first test of line 116: lticket < myTicket
SourceBehindMut(lt, k) == TRUE
SourceBehindNever(lt, k) == FALSE
SourceBehind(lt, k) == lt < k

\* Node* lhead = lcomb->head;  uint64_t lticket = lhead->ticket.load();
getCombined_114(t) ==
    /\ pc[t] = "g114"
    /\ LET h == head[L[t].lcomb] IN
       /\ L' = [L EXCEPT ![t].lhead = h, ![t].lticket = ticket[h]]
       /\ Goto(t, IF SourceBehind(ticket[h], L[t].myTicket)
                  THEN "g116" ELSE "g117")
    /\ UNCHANGED shared

\* if (lticket < myTicket && lhead != lhead->next.load()) return lcomb;
getCombined_116(t) ==
    /\ pc[t] = "g116"
    /\ IF L[t].lhead # next[L[t].lhead]
       THEN GetCombinedReturn(t, L[t].lcomb, "u242")
       ELSE Goto(t, "g117") /\ UNCHANGED L
    /\ UNCHANGED shared

\* lcomb->rwLock.sharedUnlock(tid);
getCombined_117(t) ==
    /\ pc[t] = "g117"
    /\ ri' = depart(L[t].lcomb, t)
    /\ Goto(t, IF L[t].lticket >= L[t].myTicket THEN "g119" ELSE "g112c")
    /\ UNCHANGED <<L, wstate, ctlVars, combVars, queueVars, nodeVars,
                   reclVars>>

\* if (lticket >= myTicket && lcomb == curComb.load()) return nullptr;
getCombined_119(t) ==
    /\ pc[t] = "g119"
    /\ IF L[t].lcomb = curComb
       THEN GetCombinedReturn(t, NULL, "u238")
       ELSE Goto(t, "g112c") /\ UNCHANGED L
    /\ UNCHANGED shared

(***************************************************************************)
(* applyUpdate: the copy of a replica, and the application of the nodes.   *)
(***************************************************************************)
\* mn = lcomb->head;  newComb->updateHead(mn);
applyUpdate_242(t) ==
    /\ pc[t] = "u242"
    /\ L' = [L EXCEPT ![t].mn = head[L[t].lcomb], ![t].hret = "u245"]
    /\ Goto(t, "h81")
    /\ UNCHANGED shared

\* new C(*from): the copy constructor of the object
CopyObjMut(o) == <<>>
CopyObj(o) == o

\* delete newComb->obj;  newComb->obj = new C(*lcomb->obj);
applyUpdate_245(t) ==
    /\ pc[t] = "u245"
    /\ obj' = [obj EXCEPT ![L[t].newComb] = CopyObj(obj[L[t].lcomb])]
    /\ Goto(t, "u247")
    /\ UNCHANGED <<L, lockVars, ctlVars, curComb, head, queueVars, nodeVars,
                   reclVars>>

\* lcomb->rwLock.sharedUnlock(tid);  continue;
applyUpdate_247(t) ==
    /\ pc[t] = "u247"
    /\ ri' = depart(L[t].lcomb, t)
    /\ Goto(t, "u236")
    /\ UNCHANGED <<L, wstate, ctlVars, combVars, queueVars, nodeVars,
                   reclVars>>

\* Node* lnext = hp.protectPtr(kHpHead, mn->next.load(), tid);   the load
applyUpdate_250(t) ==
    /\ pc[t] = "u250"
    /\ L' = [L EXCEPT ![t].lnext = next[L[t].mn]]
    /\ Goto(t, "u250h")
    /\ UNCHANGED shared

\* hp.protectPtr(kHpHead, ...): the store of the hazard pointer
applyUpdate_250h(t) ==
    /\ pc[t] = "u250h"
    /\ hp' = [hp EXCEPT ![t][kHpHead] = L[t].lnext]
    /\ Goto(t, "u251")
    /\ UNCHANGED <<L, lockVars, ctlVars, combVars, queueVars, nodeVars,
                   ring, retired>>

\* if (mn == mn->next.load()) continue;
applyUpdate_251(t) ==
    /\ pc[t] = "u251"
    /\ Goto(t, IF L[t].mn = next[L[t].mn] THEN "u236" ELSE "u252")
    /\ UNCHANGED <<L, shared>>

\* The closure of node n applied to an object o: an update appends itself to
\* the object, a read leaves it; both return the object they found.
MutationObjMut(n, o) == o
MutationObjTwice(n, o) == IF mutation[n] = "upd" THEN o \o <<n, n>> ELSE o
MutationObj(n, o) == IF mutation[n] = "upd" THEN Append(o, n) ELSE o
MutationResultMut(n, o) == <<>>
MutationResultAfter(n, o) == MutationObj(n, o)
MutationResult(n, o) == o

\* lnext->result.store(lnext->mutation(newComb->obj), relaxed);
\* hp.protectPtrRelease(kHpNext, lnext, tid);  mn = lnext;
\* and, when the loop ends with mn == myNode, the call newComb->updateHead(mn)
\* A null lnext, or a newComb without an object, is a null dereference.
applyUpdate_252(t) ==
    /\ pc[t] = "u252"
    /\ LET n == L[t].lnext
           c == L[t].newComb IN
       IF n = NULL \/ obj[c] = NullObj
       THEN /\ proc' = "crash"
            /\ UNCHANGED <<pc, L, obj, result, hp>>
       ELSE /\ result' = [result EXCEPT ![n] = MutationResult(n, obj[c])]
            /\ obj' = [obj EXCEPT ![c] = MutationObj(n, obj[c])]
            /\ hp' = [hp EXCEPT ![t][kHpNext] = n]
            /\ L' = [L EXCEPT ![t].mn = n, ![t].lnext = NULL,
                               ![t].hret = IF n = L[t].myNode
                                           THEN "u257" ELSE "idle"]
            /\ Goto(t, IF n = L[t].myNode THEN "h81" ELSE "u236")
            /\ UNCHANGED proc
    /\ UNCHANGED <<lockVars, ops, warm, pubMax, done, curComb, head,
                   queueVars, next, ticket, refcnt, mutation, mem, ring,
                   retired>>

\* newComb->rwLock.downgrade();
applyUpdate_257(t) ==
    /\ pc[t] = "u257"
    /\ downgrade_216(t, L[t].newComb, "u259")
    /\ UNCHANGED <<ctlVars, combVars, queueVars, nodeVars, reclVars>>

(***************************************************************************)
(* applyUpdate: the publication of newComb.                                *)
(***************************************************************************)
\* The number of attempts to publish newComb: i < maxThreads
PublishTriesMut == maxThreads - 1
PublishTries == maxThreads

\* for (int i = 0; i < maxThreads; i++) {  lcomb = curComb.load();
\*   if (!lcomb->rwLock.sharedTryLock(tid)) continue;       the call
\* At "u259c" a continue precedes: i++ and the test of i.
applyUpdate_259(t) ==
    /\ pc[t] \in {"u259", "u259c"}
    /\ LET i1 == IF pc[t] = "u259" THEN 0 ELSE L[t].i + 1 IN
       IF i1 < PublishTries
       THEN /\ Goto(t, "s158")
            /\ L' = [L EXCEPT ![t].i = i1, ![t].lcomb = curComb,
                               ![t].lk = curComb, ![t].lretT = "u262",
                               ![t].lretF = "u259c"]
       ELSE /\ Goto(t, "u282")
            /\ L' = [L EXCEPT ![t].i = 0, ![t].path = "exhausted"]
    /\ UNCHANGED shared

\* lcomb->head->ticket.load() >= myTicket
AlreadyVisibleMut(h, k) == ticket[h] + 1 >= k
AlreadyVisibleNever(h, k) == FALSE
AlreadyVisible(h, k) == ticket[h] >= k

\* if (lcomb->head->ticket.load() >= myTicket) {
applyUpdate_262(t) ==
    /\ pc[t] = "u262"
    /\ Goto(t, IF AlreadyVisible(head[L[t].lcomb], L[t].myTicket)
               THEN "u263" ELSE "u268")
    /\ UNCHANGED <<L, shared>>

\* lcomb->rwLock.sharedUnlock(tid);
applyUpdate_263(t) ==
    /\ pc[t] = "u263"
    /\ ri' = depart(L[t].lcomb, t)
    /\ Goto(t, "u264")
    /\ UNCHANGED <<L, wstate, ctlVars, combVars, queueVars, nodeVars,
                   reclVars>>

\* if (lcomb != curComb.load()) continue;  break;
applyUpdate_264(t) ==
    /\ pc[t] = "u264"
    /\ IF L[t].lcomb # curComb
       THEN Goto(t, "u259c") /\ UNCHANGED L
       ELSE Goto(t, "u282") /\ L' = [L EXCEPT ![t].i = 0, ![t].path = "break"]
    /\ UNCHANGED shared

\* if (curComb.compare_exchange_strong(tmp, newComb)) {
applyUpdate_268(t) ==
    /\ pc[t] = "u268"
    /\ IF curComb = L[t].lcomb
       THEN /\ curComb' = L[t].newComb
            /\ pubMax' = Max({pubMax, ticket[head[L[t].newComb]]})
            /\ Goto(t, "u269")
       ELSE /\ Goto(t, "u280")
            /\ UNCHANGED <<curComb, pubMax>>
    /\ UNCHANGED <<L, lockVars, ops, warm, proc, done, head, obj, queueVars,
                   nodeVars, reclVars>>

\* lcomb->rwLock.setReadUnlock();
applyUpdate_269(t) ==
    /\ pc[t] = "u269"
    /\ wstate' = setReadUnlock(L[t].lcomb)
    /\ Goto(t, "u271")
    /\ UNCHANGED <<L, ri, ctlVars, combVars, queueVars, nodeVars, reclVars>>

\* Node* node = lcomb->head;  lcomb->rwLock.sharedUnlock(tid);
\* while (node != mn) {
applyUpdate_271(t) ==
    /\ pc[t] = "u271"
    /\ ri' = depart(L[t].lcomb, t)
    /\ LET n == head[L[t].lcomb] IN
       /\ L' = [L EXCEPT ![t].node = n, ![t].i = 0, ![t].path = "cas"]
       /\ Goto(t, IF n # L[t].mn THEN "u274" ELSE "uret")
    /\ UNCHANGED <<wstate, ctlVars, combVars, queueVars, nodeVars, reclVars>>

\* CircularArray::add(node), after clean: preRetiredMutNodes[pos] = node;
RingAdd(r, n) ==
    [r EXCEPT !.arr[(r.begin + r.size) % max_size] = n, !.size = @ + 1]

\* preRetired[tid]->add(node) has returned:  node = lnext;  while (node != mn)
AfterAdd(t, loc) ==
    /\ Goto(t, IF loc.lnext # loc.mn THEN "u274" ELSE "uret")
    /\ L' = [L EXCEPT ![t] = [loc EXCEPT !.node = loc.lnext, !.lnext = NULL,
                                         !.cpos = 0, !.ci = 0, !.csize = 0,
                                         !.mNode = NULL, !.cnext = NULL,
                                         !.iret = 0, !.it = 0, !.ihp = 0,
                                         !.robj = NULL]]

\* Node* lnext = node->next.load();  preRetired[tid]->add(node):
\* if (size == max_size) clean(node);  else the store of add
applyUpdate_274(t) ==
    /\ pc[t] = "u274"
    /\ LET loc == [L[t] EXCEPT !.lnext = next[L[t].node]] IN
       IF ring[t].size = max_size
       THEN /\ Goto(t, "c62")
            /\ L' = [L EXCEPT ![t] = [loc EXCEPT !.cpos = ring[t].begin,
                                                 !.ci = 0,
                                                 !.csize = ring[t].size]]
            /\ UNCHANGED ring
       ELSE /\ ring' = [ring EXCEPT ![t] = RingAdd(@, L[t].node)]
            /\ AfterAdd(t, loc)
    /\ UNCHANGED <<lockVars, ctlVars, combVars, queueVars, nodeVars, hp,
                   retired>>

\* lcomb->rwLock.sharedUnlock(tid);   after the failed CAS
applyUpdate_280(t) ==
    /\ pc[t] = "u280"
    /\ ri' = depart(L[t].lcomb, t)
    /\ Goto(t, "u259c")
    /\ UNCHANGED <<L, wstate, ctlVars, combVars, queueVars, nodeVars,
                   reclVars>>

\* newComb->rwLock.setReadUnlock();
applyUpdate_282(t) ==
    /\ pc[t] = "u282"
    /\ wstate' = setReadUnlock(L[t].newComb)
    /\ Goto(t, "uret")
    /\ UNCHANGED <<L, ri, ctlVars, combVars, queueVars, nodeVars, reclVars>>

\* return myNode->result.load();
applyUpdate_return(t) ==
    /\ pc[t] = "uret"
    /\ Goto(t, "idle")
    /\ L' = [L EXCEPT ![t] = L0]
    /\ done' = done \cup {L[t].myNode}
    /\ warm' = IF t = 0 /\ warm > 0 THEN warm - 1 ELSE warm
    /\ UNCHANGED <<lockVars, ops, proc, pubMax, combVars, queueVars,
                   nodeVars, reclVars>>

(***************************************************************************)
(* CircularArray::clean(node) and HazardPointersCX::retire(ptr, tid).      *)
(***************************************************************************)
\* mNode->ticket.load() > node->ticket.load() - min_size, in uint64_t: for a
\* ticket of node below min_size the difference wraps to a value above every
\* ticket.
TicketAboveMut(m, n, ms) == TRUE
TicketAboveNext(m, n, ms) ==
    IF ticket[n] >= ms THEN ticket[m] > ticket[n] - ms + 1 ELSE FALSE
TicketAboveOrEqual(m, n, ms) ==
    IF ticket[n] >= ms THEN ticket[m] >= ticket[n] - ms ELSE FALSE
TicketAbove(m, n, ms) ==
    IF ticket[n] >= ms THEN ticket[m] > ticket[n] - ms ELSE FALSE

\* if (pos == max_size) pos = 0;  TNode* mNode = preRetiredMutNodes[pos];
\* if (mNode->ticket.load() > node->ticket.load()-min_size) { begin = pos; return; }
clean_62(t) ==
    /\ pc[t] = "c62"
    /\ LET pos == IF L[t].cpos = max_size THEN 0 ELSE L[t].cpos
           m == ring[t].arr[pos] IN
       IF TicketAbove(m, L[t].node, ring[t].min_size)
       THEN /\ ring' = [ring EXCEPT ![t] = RingAdd([@ EXCEPT !.begin = pos],
                                                   L[t].node)]
            /\ AfterAdd(t, L[t])
       ELSE /\ L' = [L EXCEPT ![t].cpos = pos, ![t].mNode = m]
            /\ Goto(t, "c66")
            /\ UNCHANGED ring
    /\ UNCHANGED <<lockVars, ctlVars, combVars, queueVars, nodeVars, hp,
                   retired>>

\* lnext = mNode->next.load();
clean_66(t) ==
    /\ pc[t] = "c66"
    /\ L' = [L EXCEPT ![t].cnext = next[L[t].mNode]]
    /\ Goto(t, "c67")
    /\ UNCHANGED shared

\* mNode->next.store(mNode, release);
\* hp.retire(lnext,tid): retiredList[tid*CLPAD].push_back(ptr);
clean_67(t) ==
    /\ pc[t] = "c67"
    /\ next' = [next EXCEPT ![L[t].mNode] = L[t].mNode]
    /\ retired' = [retired EXCEPT ![t] = Append(@, L[t].cnext)]
    /\ L' = [L EXCEPT ![t].iret = 0]
    /\ Goto(t, "r142")
    /\ UNCHANGED <<lockVars, ctlVars, combVars, queueVars, ticket, refcnt,
                   result, mutation, mem, hp, ring>>

\* obj->next.load() != obj, negated: the node has been unlinked by clean
SelfLinkedMut(o) == TRUE
SelfLinked(o) == next[o] = o

\* for (iret = 0; iret < retiredList.size(); iret++) {
\*   auto obj = retiredList[iret];  if (obj->next.load() != obj) continue;
\* and, at the end of the loop, the return to clean: pos++; size--; i++; at
\* the end of clean's loop, the store of add.
retire_142(t) ==
    /\ pc[t] = "r142"
    /\ IF L[t].iret < Len(retired[t])
       THEN /\ LET o == retired[t][L[t].iret + 1] IN
               IF ~SelfLinked(o)
               THEN L' = [L EXCEPT ![t].iret = @ + 1] /\ UNCHANGED pc
               ELSE /\ L' = [L EXCEPT ![t].robj = o, ![t].it = 0, ![t].ihp = 0]
                    /\ Goto(t, "r146")
            /\ UNCHANGED ring
       ELSE IF L[t].ci + 1 < L[t].csize
            THEN /\ ring' = [ring EXCEPT ![t].size = @ - 1]
                 /\ L' = [L EXCEPT ![t].cpos = @ + 1, ![t].ci = @ + 1,
                                    ![t].iret = 0, ![t].mNode = NULL,
                                    ![t].cnext = NULL, ![t].robj = NULL]
                 /\ Goto(t, "c62")
            ELSE /\ ring' = [ring EXCEPT
                               ![t] = RingAdd([@ EXCEPT !.size = @ - 1],
                                              L[t].node)]
                 /\ AfterAdd(t, L[t])
    /\ UNCHANGED <<lockVars, ctlVars, combVars, queueVars, nodeVars, hp,
                   retired>>

\* HazardPointersCX::maxHPs
maxHPs == 5

\* hp[it][ihp].load() == obj
HazardHoldsMut(it, ihp, o) == FALSE
HazardHoldsTail(it, ihp, o) == ihp \in {kHpTail, kHpTailNext} /\ hp[it][ihp] = o
HazardHolds(it, ihp, o) == hp[it][ihp] = o

\* if (hp[it][ihp].load() == obj) { canDelete = false; break; }
retire_146(t) ==
    /\ pc[t] = "r146"
    /\ IF HazardHolds(L[t].it, L[t].ihp, L[t].robj)
       THEN /\ L' = [L EXCEPT ![t].iret = @ + 1, ![t].robj = NULL,
                               ![t].it = 0, ![t].ihp = 0]
            /\ Goto(t, "r142")
       ELSE IF L[t].ihp + 1 < maxHPs
            THEN L' = [L EXCEPT ![t].ihp = @ + 1] /\ UNCHANGED pc
            ELSE IF L[t].it + 1 < maxThreads
                 THEN /\ L' = [L EXCEPT ![t].it = @ + 1, ![t].ihp = 0]
                      /\ UNCHANGED pc
                 ELSE /\ L' = [L EXCEPT ![t].it = 0, ![t].ihp = 0]
                      /\ Goto(t, "r151")
    /\ UNCHANGED shared

\* The sequence s without its k-th element.
EraseMut(s, k) == s
Erase(s, k) == [x \in 1 .. (Len(s) - 1) |-> IF x < k THEN s[x] ELSE s[x + 1]]

\* obj->refcnt.load() == 0
UnreferencedMut(o) == TRUE
Unreferenced(o) == refcnt[o] = 0

\* if (canDelete && obj->refcnt.load() == 0) {
\*     retiredList.erase(begin + iret);  delete obj;  iret--;  continue; }
retire_151(t) ==
    /\ pc[t] = "r151"
    /\ IF Unreferenced(L[t].robj)
       THEN /\ retired' = [retired EXCEPT ![t] = Erase(@, L[t].iret + 1)]
            /\ mem' = [mem EXCEPT ![L[t].robj] = "freed"]
            /\ L' = [L EXCEPT ![t].robj = NULL]
       ELSE /\ L' = [L EXCEPT ![t].iret = @ + 1, ![t].robj = NULL]
            /\ UNCHANGED <<retired, mem>>
    /\ Goto(t, "r142")
    /\ UNCHANGED <<lockVars, ctlVars, combVars, queueVars, next, ticket,
                   refcnt, result, mutation, hp, ring>>

(***************************************************************************)
(* applyRead(readFunc, tid)                                                *)
(***************************************************************************)
\* The number of iterations of the loop: i < MAX_READ_TRIES + maxThreads
ReadTries == MAX_READ_TRIES + maxThreads

\* for (int i=0; i < MAX_READ_TRIES + maxThreads; i++) {
\*   Combined* lcomb = curComb.load();
\*   if (i == MAX_READ_TRIES) ... else if (lcomb->rwLock.sharedTryLock(tid))
\* From "idle" the call begins; at "r292c" the body of the loop has ended:
\* i++ and the test of i.
applyRead_292(t) ==
    /\ pc[t] \in {"idle", "r292c"}
    /\ pc[t] = "idle" => /\ t \in active /\ ops[t] > 0 /\ warm = 0
                          /\ "read" \in kinds[t]
    /\ ops' = IF pc[t] = "idle" THEN [ops EXCEPT ![t] = @ - 1] ELSE ops
    /\ LET i1 == IF pc[t] = "idle" THEN 0 ELSE L[t].i + 1 IN
       IF i1 < ReadTries
       THEN /\ Goto(t, IF i1 = MAX_READ_TRIES THEN "r294" ELSE "s158")
            /\ L' = [L EXCEPT ![t].op = "read", ![t].i = i1,
                               ![t].lcomb = curComb, ![t].lk = curComb,
                               ![t].lretT = "r299", ![t].lretF = "r292c"]
       ELSE /\ Goto(t, "r307")
            /\ UNCHANGED L
    /\ UNCHANGED <<lockVars, warm, proc, pubMax, done, combVars, queueVars,
                   nodeVars, reclVars>>

\* myNode = new Node(readFunc, tid);  hp.protectPtr(kHpMyNode, myNode, tid);
\* enqueue(myNode, tid):  enqueuers[tid].store(myNode);
applyRead_294(t) ==
    /\ pc[t] = "r294"
    /\ LET n == NewNode(t) IN
       /\ mem' = [mem EXCEPT ![n] = "live"]
       /\ mutation' = [mutation EXCEPT ![n] = "read"]
       /\ hp' = [hp EXCEPT ![t][kHpMyNode] = n]
       /\ enqueuers' = [enqueuers EXCEPT ![t] = n]
       /\ L' = [L EXCEPT ![t].myNode = n, ![t].eret = "s158",
                         ![t].pubAt = Published]
    /\ Goto(t, "e135")
    /\ UNCHANGED <<lockVars, ctlVars, combVars, tail, next, ticket, refcnt,
                   result, ring, retired>>

\* if (lcomb == curComb.load()) {
applyRead_299(t) ==
    /\ pc[t] = "r299"
    /\ Goto(t, IF L[t].lcomb = curComb THEN "r300" ELSE "r304")
    /\ UNCHANGED <<L, shared>>

\* auto ret = readFunc(lcomb->obj);
applyRead_300(t) ==
    /\ pc[t] = "r300"
    /\ L' = [L EXCEPT ![t].ret = obj[L[t].lcomb]]
    /\ Goto(t, "r301")
    /\ UNCHANGED shared

\* lcomb->rwLock.sharedUnlock(tid);  return ret;
applyRead_301(t) ==
    /\ pc[t] = "r301"
    /\ ri' = depart(L[t].lcomb, t)
    /\ Goto(t, "idle")
    /\ L' = [L EXCEPT ![t] = L0]
    /\ UNCHANGED <<wstate, ctlVars, combVars, queueVars, nodeVars, reclVars>>

\* lcomb->rwLock.sharedUnlock(tid);   lcomb is no longer curComb
applyRead_304(t) ==
    /\ pc[t] = "r304"
    /\ ri' = depart(L[t].lcomb, t)
    /\ Goto(t, "r292c")
    /\ UNCHANGED <<L, wstate, ctlVars, combVars, queueVars, nodeVars,
                   reclVars>>

\* return myNode->result.load();
applyRead_307(t) ==
    /\ pc[t] = "r307"
    /\ Goto(t, "idle")
    /\ L' = [L EXCEPT ![t] = L0]
    /\ UNCHANGED shared

(***************************************************************************)
(* The constructor, and the threads that use the object.                   *)
(***************************************************************************)
\* A run: the constructor's maxThreads, the ids of the calling threads, for
\* each of them the number and the kinds of its operations, and how many
\* operations thread 0 completes before the other threads start.
Run(mt, act, o, k, w) ==
    [mt |-> mt, act |-> act, warm |-> w, ms |-> min_size,
     ops |-> [t \in CxTids |-> IF t \in act THEN o[t + 1] ELSE 0],
     kinds |-> [t \in CxTids |-> IF t \in act THEN k[t + 1] ELSE {}]]

Both == {"upd", "read"}

Runs == {Run(2, {0, 1}, <<1, 1>>, <<Both, Both>>, 0),
         Run(2, {0, 1}, <<3, 1>>, <<{"upd"}, {"read"}>>, 0),
         Run(2, {0, 1}, <<MaxOps, 1>>, <<{"upd"}, Both>>, MaxOps - 1),
         Run(1, {0, 1}, <<1, 1>>, <<{"upd"}, {"upd"}>>, 0),
         Run(2, {0, 1}, <<2, 2>>, <<{"read"}, {"read"}>>, 0),
         Run(2, {0}, <<MaxOps, 0>>, <<Both, {}>>, 0)}

UpdRuns == {Run(2, {0, 1}, <<2, 1>>, <<{"upd"}, {"upd"}>>, 0),
            Run(2, {0, 1}, <<MaxOps, 1>>, <<{"upd"}, {"upd"}>>, MaxOps - 1),
            Run(1, {0, 1}, <<1, 1>>, <<{"upd"}, {"upd"}>>, 0)}

\* CXMutationWF(C* inst, const int maxThreads), for a run w
Constructed(w) ==
    LET valid == IF w.mt >= 2 THEN 4 ELSE 2
        cs == 0 .. (NumCombs(w.mt) - 1)
        ts == CxTids \cup (0 .. (w.mt - 1)) IN
    /\ maxThreads = w.mt
    /\ active = w.act
    /\ ops = w.ops
    /\ kinds = w.kinds
    /\ warm = w.warm
    /\ proc = "run"
    /\ head = [c \in cs |-> IF c < valid THEN sentinel ELSE NULL]
    /\ obj = [c \in cs |-> IF c < valid THEN <<>> ELSE NullObj]
    /\ wstate = [c \in cs |-> IF c = 0
                              THEN setReadLock([seq |-> 0, state |-> NOLOCK])
                              ELSE [seq |-> 0, state |-> NOLOCK]]
    /\ ri = [c \in cs |-> [t \in CxTids |-> NOT_READING]]
    /\ curComb = 0
    /\ tail = sentinel
    /\ enqueuers = [t \in ts |-> NULL]
    /\ next = [n \in Nodes |-> NULL]
    /\ ticket = [n \in Nodes |-> 0]
    /\ refcnt = [n \in Nodes |-> IF n = sentinel THEN valid ELSE 0]
    /\ result = [n \in Nodes |-> Unwritten]
    /\ mutation = [n \in Nodes |-> IF n = sentinel THEN "read" ELSE "none"]
    /\ mem = [n \in Nodes |-> IF n = sentinel THEN "live" ELSE "none"]
    /\ hp = [t \in ts |-> [x \in 0 .. (maxHPs - 1) |-> NULL]]
    /\ ring = [t \in CxTids |-> [arr |-> [x \in 0 .. (max_size - 1) |-> NULL],
                                 begin |-> 0, size |-> 0,
                                 min_size |-> w.ms]]
    /\ retired = [t \in CxTids |-> <<>>]
    /\ pc = [t \in CxTids |-> "idle"]
    /\ L = [t \in CxTids |-> L0]

StartedWith(R, c) ==
    /\ \E w \in R : Constructed(w)
    /\ counting = c
    /\ pubMax = 0
    /\ done = {}
    /\ copyTime = 0
    /\ nodeDone = {}
    /\ calls = 0
    /\ seen = <<>>
    /\ cand = <<>>
    /\ pending = {}
    /\ drain = <<>>

Started(R) == StartedWith(R, FALSE)

Init == Started(Runs)

\* The construct used for updates only.
UpdInit == Started(UpdRuns)

Frame == proc = "run" /\ UNCHANGED <<active, maxThreads, kinds, calls,
                                     ghostVars, timedVars, counting>>
LFrame == proc = "run" /\ UNCHANGED <<active, maxThreads, kinds, calls,
                                      ghostVars, counting, ctlVars, combVars, queueVars,
                                      nodeVars, reclVars, timedVars>>

\* The places of a thread inside applyUpdate
applyUpdateLabels == {"idle", "u215", "u218", "u224", "u228", "u230", "u236",
                      "u238", "u239", "u242", "u245", "u247", "u250", "u250h",
                      "u251", "u252", "u257", "u259", "u259c", "u262", "u263",
                      "u264", "u268", "u269", "u271", "u274", "u280", "u282",
                      "uret"}

\* A step of thread t inside applyUpdate
applyUpdate(t) ==
    /\ pc[t] \in applyUpdateLabels
    /\ \/ applyUpdate_212(t) /\ Frame
       \/ applyUpdate_215(t) /\ Frame
       \/ applyUpdate_218(t) /\ Frame
       \/ applyUpdate_224(t) /\ Frame
       \/ applyUpdate_228(t) /\ Frame
       \/ applyUpdate_230(t) /\ Frame
       \/ applyUpdate_236(t) /\ Frame
       \/ applyUpdate_238(t) /\ Frame
       \/ applyUpdate_239(t) /\ Frame
       \/ applyUpdate_242(t) /\ Frame
       \/ applyUpdate_245(t) /\ Frame
       \/ applyUpdate_247(t) /\ Frame
       \/ applyUpdate_250(t) /\ Frame
       \/ applyUpdate_250h(t) /\ Frame
       \/ applyUpdate_251(t) /\ Frame
       \/ applyUpdate_252(t) /\ Frame
       \/ applyUpdate_257(t) /\ Frame
       \/ applyUpdate_259(t) /\ Frame
       \/ applyUpdate_262(t) /\ Frame
       \/ applyUpdate_263(t) /\ Frame
       \/ applyUpdate_264(t) /\ Frame
       \/ applyUpdate_268(t) /\ Frame
       \/ applyUpdate_269(t) /\ Frame
       \/ applyUpdate_271(t) /\ Frame
       \/ applyUpdate_274(t) /\ Frame
       \/ applyUpdate_280(t) /\ Frame
       \/ applyUpdate_282(t) /\ Frame
       \/ applyUpdate_return(t) /\ Frame

\* The places of a thread inside enqueue
enqueueLabels == {"e135", "e139", "e139h", "e140", "e141", "e146", "e149",
                  "e152", "e154", "e155", "e156", "e157", "e160"}

\* A step of thread t inside enqueue
enqueue(t) ==
    /\ pc[t] \in enqueueLabels
    /\ \/ enqueue_135(t) /\ Frame
       \/ enqueue_139(t) /\ Frame
       \/ enqueue_139h(t) /\ Frame
       \/ enqueue_140(t) /\ Frame
       \/ enqueue_141(t) /\ Frame
       \/ enqueue_146(t) /\ Frame
       \/ enqueue_149(t) /\ Frame
       \/ enqueue_152(t) /\ Frame
       \/ enqueue_154(t) /\ Frame
       \/ enqueue_155(t) /\ Frame
       \/ enqueue_156(t) /\ Frame
       \/ enqueue_157(t) /\ Frame
       \/ enqueue_160(t) /\ Frame

\* The places of a thread inside getCombined
getCombinedLabels == {"g112", "g112c", "g114", "g116", "g117", "g119"}

\* A step of thread t inside getCombined
getCombined(t) ==
    /\ pc[t] \in getCombinedLabels
    /\ \/ getCombined_112(t) /\ Frame
       \/ getCombined_114(t) /\ Frame
       \/ getCombined_116(t) /\ Frame
       \/ getCombined_117(t) /\ Frame
       \/ getCombined_119(t) /\ Frame

\* The places of a thread inside updateHead
updateHeadLabels == {"h81", "h82"}

\* A step of thread t inside updateHead
updateHead(t) ==
    /\ pc[t] \in updateHeadLabels
    /\ \/ updateHead_81(t) /\ Frame
       \/ updateHead_82(t) /\ Frame

\* The places of a thread inside CircularArray::clean
cleanLabels == {"c62", "c66", "c67"}

\* A step of thread t inside CircularArray::clean
clean(t) ==
    /\ pc[t] \in cleanLabels
    /\ \/ clean_62(t) /\ Frame
       \/ clean_66(t) /\ Frame
       \/ clean_67(t) /\ Frame

\* The places of a thread inside HazardPointersCX::retire
retireLabels == {"r142", "r146", "r151"}

\* A step of thread t inside HazardPointersCX::retire
retire(t) ==
    /\ pc[t] \in retireLabels
    /\ \/ retire_142(t) /\ Frame
       \/ retire_146(t) /\ Frame
       \/ retire_151(t) /\ Frame

\* The places of a thread inside sharedTryLock
sharedTryLockLabels == {"s158", "s159", "s160", "s162", "s163", "s165"}

\* A step of thread t inside sharedTryLock
sharedTryLock(t) ==
    /\ pc[t] \in sharedTryLockLabels
    /\ \/ sharedTryLock_158(t) /\ LFrame
       \/ sharedTryLock_159(t) /\ LFrame
       \/ sharedTryLock_160(t) /\ LFrame
       \/ sharedTryLock_162(t) /\ LFrame
       \/ sharedTryLock_163(t) /\ LFrame
       \/ sharedTryLock_165(t) /\ LFrame

\* The places of a thread inside exclusiveTryLock
exclusiveTryLockLabels == {"x180", "x182", "x183", "x186", "x187", "x188",
                           "x189"}

\* A step of thread t inside exclusiveTryLock
exclusiveTryLock(t) ==
    /\ pc[t] \in exclusiveTryLockLabels
    /\ \/ exclusiveTryLock_180(t) /\ LFrame
       \/ exclusiveTryLock_182(t) /\ LFrame
       \/ exclusiveTryLock_183(t) /\ LFrame
       \/ exclusiveTryLock_186(t) /\ LFrame
       \/ exclusiveTryLock_187(t) /\ LFrame
       \/ exclusiveTryLock_188(t) /\ LFrame
       \/ exclusiveTryLock_189(t) /\ LFrame

\* The places of a thread inside exclusiveUnlock
exclusiveUnlockLabels == {"u200", "u201"}

\* A step of thread t inside exclusiveUnlock
exclusiveUnlock(t) ==
    /\ pc[t] \in exclusiveUnlockLabels
    /\ \/ exclusiveUnlock_200(t) /\ LFrame
       \/ exclusiveUnlock_201(t) /\ LFrame

\* A step of thread t in applyUpdate, or in what applyUpdate and applyRead
\* both call.
UpdStep(t) ==
        \/ applyUpdate(t)
        \/ enqueue(t)
        \/ getCombined(t)
        \/ updateHead(t)
        \/ clean(t)
        \/ retire(t)
        \/ sharedTryLock(t)
        \/ exclusiveTryLock(t)
        \/ exclusiveUnlock(t)
        \/ downgrade_218(t) /\ LFrame

\* The places of a thread inside applyRead
applyReadLabels == {"idle", "r292c", "r294", "r299", "r300", "r301", "r304",
                    "r307"}

\* A step of thread t inside applyRead
applyRead(t) ==
    /\ pc[t] \in applyReadLabels
    /\ \/ applyRead_292(t) /\ Frame
       \/ applyRead_294(t) /\ Frame
       \/ applyRead_299(t) /\ Frame
       \/ applyRead_300(t) /\ Frame
       \/ applyRead_301(t) /\ Frame
       \/ applyRead_304(t) /\ Frame
       \/ applyRead_307(t) /\ Frame

\* A step of thread t in applyRead.
ReadStep(t) == applyRead(t)

\* A step of thread t.
Step(t) == UpdStep(t) \/ ReadStep(t)

Next == \E t \in CxTids : Step(t)

Spec == Init /\ [][Next]_vars

UpdNext == \E t \in CxTids : UpdStep(t)

UpdSpec == UpdInit /\ [][UpdNext]_vars

\* The construct used for a burst: thread 0 completes BurstWarm updates
\* before the threads run concurrently.
BurstWarm == MaxOps - 2
BurstRuns == {Run(2, {0, 1}, <<MaxOps, 1>>, <<{"upd"}, {"upd"}>>, BurstWarm),
              Run(1, {0, 1}, <<1, 1>>, <<{"upd"}, {"upd"}>>, 0)}
BurstInit == Started(BurstRuns)
BurstSpec == BurstInit /\ [][UpdNext]_vars

\* The construct used for the scan of clean: the rings keep the entries
\* whose ticket is less than RingMinSize below the ticket of the node added.
RingMinSize == max_size
RingRuns == {[w EXCEPT !.ms = RingMinSize] : w \in UpdRuns}
RingInit == Started(RingRuns)
RingSpec == RingInit /\ [][UpdNext]_vars

\* The update runs, and a run of one thread on an object constructed with
\* maxThreads = 1, which has two Combined instances.
RefRuns == UpdRuns \cup {Run(1, {0}, <<MaxOps, 0>>, <<{"upd"}, {}>>, 0)}
RefInit == Started(RefRuns)
RefSpec == RefInit /\ [][UpdNext]_vars

\* The runs of BurstSpec, with min_size 1 and with a min_size that exceeds
\* maxThreads.
WideMinSize == MaxCxTid + 2
AbandonRuns == BurstRuns \cup {[w EXCEPT !.ms = WideMinSize] : w \in BurstRuns}
AbandonInit == Started(AbandonRuns)
AbandonSpec == AbandonInit /\ [][UpdNext]_vars

\* The update runs, recording for every published node how many nodes the
\* queue held at its publication.
TurnInit == StartedWith(UpdRuns, TRUE)
TurnSpec == TurnInit /\ [][UpdNext]_vars

(***************************************************************************)
(* Destruction.  ~CXMutationWF runs in the thread with id 0 when no thread *)
(* is in a call; the destructors of the members follow its body.  Nothing  *)
(* runs concurrently, so a call of retire is one step here.                *)
(***************************************************************************)
\* The value of Combined::obj after delete combs[i].obj
FreedObj == <<NULL, NULL>>

\* delete of node n; a second delete of the same node is recorded.
Delete(m, n) == [m EXCEPT ![n] = IF @ = "live" THEN "freed" ELSE "twice"]

RECURSIVE DeleteAll(_, _)
DeleteAll(m, s) ==
    IF s = <<>> THEN m ELSE DeleteAll(Delete(m, Head(s)), Tail(s))

\* The test of retire on one entry of the retired list: lines 143 to 153.
CanDelete(o) ==
    /\ SelfLinked(o)
    /\ \A it \in 0 .. (maxThreads - 1) : \A ihp \in 0 .. (maxHPs - 1) :
          ~HazardHolds(it, ihp, o)
    /\ Unreferenced(o)

\* hp.retire(ptr, tid) as a whole, on the retired list rl and the memory m.
RetireCall(rl, m, ptr) ==
    LET rl1 == Append(rl, ptr)
        Kept(o) == ~CanDelete(o) IN
    [rl |-> SelectSeq(rl1, Kept), m |-> DeleteAll(m, SelectSeq(rl1, CanDelete))]

\* ~CircularArray of preRetired[i], from its k-th entry on:
\* hp.retire(preRetiredMutNodes[pos]->next.load(), tid);  pos++;
RECURSIVE RingRetire(_, _, _)
RingRetire(i, k, st) ==
    IF k = ring[i].size THEN st
    ELSE LET e == ring[i].arr[(ring[i].begin + k) % max_size] IN
         RingRetire(i, k + 1, RetireCall(st.rl, st.m, next[e]))

\* ~CXMutationWF: for (i < 2*maxThreads)
\*   if (combs[i].obj == nullptr || combs[i].head == nullptr) continue;
\*   delete combs[i].obj;
dtor_187(t) ==
    /\ pc[t] = "idle"
    /\ t = 0
    /\ proc = "run"
    /\ \A u \in CxTids : pc[u] = "idle"
    /\ obj' = [c \in DOMAIN obj |->
                  IF obj[c] = NullObj \/ head[c] = NULL
                  THEN obj[c] ELSE FreedObj]
    /\ proc' = "dtor"
    /\ Goto(t, "d191")
    /\ L' = [L EXCEPT ![t].i = 0]
    /\ UNCHANGED <<lockVars, ops, warm, pubMax, done, curComb, head,
                   queueVars, nodeVars, reclVars>>

\* for (int i = 0; i < maxThreads; i++) delete preRetired[i];
\* one ~CircularArray per step; a null next of a ring entry is dereferenced
\* by retire.
dtor_191(t) ==
    /\ pc[t] = "d191"
    /\ LET i == L[t].i
           n == ring[i].size
           nulls == {k \in 0 .. (n - 1) :
                        next[ring[i].arr[(ring[i].begin + k) % max_size]] = NULL}
           st == RingRetire(i, 0, [rl |-> retired[i], m |-> mem]) IN
       IF nulls # {}
       THEN /\ proc' = "crash"
            /\ UNCHANGED <<pc, L, mem, retired>>
       ELSE /\ mem' = st.m
            /\ retired' = [retired EXCEPT ![i] = st.rl]
            /\ L' = [L EXCEPT ![t].i = IF i + 1 < maxThreads THEN i + 1 ELSE 0]
            /\ Goto(t, IF i + 1 < maxThreads THEN "d191" ELSE "d192")
            /\ UNCHANGED proc
    /\ UNCHANGED <<lockVars, ops, warm, pubMax, done, combVars, queueVars,
                   next, ticket, refcnt, result, mutation, hp, ring>>

\* delete[] combs;  delete sentinel;
dtor_192(t) ==
    /\ pc[t] = "d192"
    /\ mem' = Delete(mem, sentinel)
    /\ Goto(t, "d69")
    /\ UNCHANGED <<L, lockVars, ctlVars, combVars, queueVars, next, ticket,
                   refcnt, result, mutation, reclVars>>

RECURSIVE DeleteLists(_, _, _)
DeleteLists(m, rls, ts) ==
    IF ts = {} THEN m
    ELSE LET it == Min(ts) IN
         DeleteLists(DeleteAll(m, rls[it]), rls, ts \ {it})

\* ~HazardPointersCX: for (it < HP_MAX_THREADS) { delete[] hp[it];
\*   for (iret < retiredList[it*CLPAD].size()) delete retiredList[it*CLPAD][iret]; }
dtorHP_69(t) ==
    /\ pc[t] = "d69"
    /\ mem' = DeleteLists(mem, retired, DOMAIN retired)
    /\ retired' = [it \in DOMAIN retired |-> <<>>]
    /\ proc' = "destroyed"
    /\ Goto(t, "idle")
    /\ UNCHANGED <<L, lockVars, ops, warm, pubMax, done, combVars, queueVars,
                   next, ticket, refcnt, result, mutation, hp, ring>>

DtorFrame == UNCHANGED <<active, maxThreads, kinds, calls, ghostVars,
                         timedVars, counting>>

\* A step of the destruction.
DtorStep(t) ==
        \/ dtor_187(t) /\ DtorFrame
        \/ dtor_191(t) /\ DtorFrame
        \/ dtor_192(t) /\ DtorFrame
        \/ dtorHP_69(t) /\ DtorFrame

\* The construct used by its threads and then destroyed.
DtorNext == \E t \in CxTids : Step(t) \/ DtorStep(t)
DtorSpec == Init /\ [][DtorNext]_vars

\* The runs of Spec and a run of two updates of thread 0 beside one update of
\* thread 1, each followed by the destruction.
WalkRuns == Runs \cup {Run(2, {0, 1}, <<2, 1>>, <<{"upd"}, {"upd"}>>, 0)}
WalkInit == Started(WalkRuns)
WalkSpec == WalkInit /\ [][DtorNext]_vars

(***************************************************************************)
(* Properties of the lock (LockSpec).                                      *)
(***************************************************************************)
\* C9: for each lock, at most one thread holds it exclusively, and while a
\* thread holds it exclusively no thread holds it shared.
C9_MutualExclusion ==
    \A c \in Locks :
        /\ Cardinality({t \in Tids : HoldsExclusive(t, c)}) <= 1
        /\ (\E t \in Tids : HoldsExclusive(t, c))
              => ~(\E u \in Tids : HoldsShared(u, c))

C9_Witness ==
    \E t \in Tids, u \in Tids :
        /\ t # u /\ HoldsExclusive(t, 0)
        /\ pc[u] \in SharedTryPcs /\ ri[0][u] = READING

Legit == active \subseteq 0 .. (maxThreads - 1)

Range(s) == {s[x] : x \in DOMAIN s}

InCall(t) == pc[t] # "idle"

\* The last update of the log, the sentinel when there is none.
LastUpd ==
    LET U == {n \in Nodes : mutation[n] = "upd" /\ ticket[n] > 0} IN
    IF U = {} THEN sentinel
    ELSE CHOOSE n \in U : \A m \in U : ticket[m] <= ticket[n]

\* Thread t holds Combined c in shared mode inside applyRead: sharedTryLock
\* has returned true and sharedUnlock has not been called yet.
ReadHold(t, c) == pc[t] \in {"r299", "r300", "r301", "r304"} /\ L[t].lcomb = c

\* C1: the value an applyUpdate call is about to return is the result of its
\* closure in the sequential execution of the updates in ticket order (here
\* the sequence of the updates that precede it), never an unwritten slot.
C1_SequentialResult ==
    Legit => \A t \in CxTids :
        pc[t] = "uret" =>
            /\ result[L[t].myNode] # Unwritten
            /\ result[L[t].myNode] = LogBelow(L[t].myTicket)

C1_Witness ==
    /\ Legit
    /\ \E t \in CxTids :
        pc[t] = "uret" /\ L[t].path = "early" /\ ticket[tail] >= 3

\* C2: when an applyUpdate call is about to return, on whichever path,
\* curComb designates a Combined whose head has a ticket at least the
\* caller's; and the replica curComb designates holds every update whose
\* call has returned, so that later calls observe it.
C2_VisibleAtReturn ==
    Legit =>
        /\ \A t \in CxTids :
            pc[t] = "uret" => ticket[head[curComb]] >= L[t].myTicket
        /\ done \subseteq Range(obj[curComb])

C2_Witness ==
    /\ Legit
    /\ \E t \in CxTids : pc[t] = "uret" /\ L[t].path = "exhausted"

\* C3: an applyRead call runs readFunc on the Combined that curComb designated
\* when the call verified it again, and from the moment its shared hold is
\* acquired until its sharedUnlock no step changes the obj or the head of
\* that Combined.
C3_ReadHoldStable ==
    [][Legit => \A t \in CxTids :
        /\ (pc[t] = "r299" /\ pc'[t] = "r300") => L[t].lcomb = curComb
        /\ \A c \in Combs :
            (ReadHold(t, c) /\ ReadHold(t, c)') =>
                (obj'[c] = obj[c] /\ head'[c] = head[c])]_vars

C3_Witness ==
    /\ Legit
    /\ \E t \in CxTids, u \in CxTids :
        /\ pc[t] = "r300"
        /\ pc[u] = "u252"
        /\ L[u].newComb # L[t].lcomb

\* C4: when applyRead returns on its escalation path, some mutator has
\* applied the caller's node and stored its result.
C4_EscalationResultStored ==
    Legit => \A t \in CxTids :
        pc[t] = "r307" => result[L[t].myNode] # Unwritten

\* C5: when no call is running, the replica curComb designates is the result
\* of all the updates of the log in ticket order, and its head is the last
\* update node of the log.
C5_QuiescentState ==
    (Legit /\ \A t \in CxTids : ~InCall(t)) =>
        /\ obj[curComb] = LogBelow(ticket[tail] + 1)
        /\ head[curComb] = LastUpd

C5_Witness ==
    /\ Legit
    /\ \A t \in CxTids : ~InCall(t)
    /\ \E n \in done, m \in done : enqTid(n) # enqTid(m)

\* C6: every applyUpdate and applyRead call returns after finitely many steps
\* of its own thread in every schedule, whether the other threads stop for
\* ever or not: a thread inside a call always has a step to take, each of
\* its steps changes its own position or locals, and it cannot stay inside a
\* call for ever while it keeps taking steps.
C6_WaitFree ==
    /\ [](\A t \in CxTids : (InCall(t) /\ proc = "run") => ENABLED Step(t))
    /\ [][\A t \in CxTids :
            Step(t) => (<<pc[t], L[t]>>' # <<pc[t], L[t]>> \/ proc' # "run")]_vars
    /\ \A t \in CxTids :
        <>[](InCall(t) /\ proc = "run")
            => <>[][UNCHANGED <<pc[t], L[t]>>]_vars

C6_Witness ==
    /\ Legit
    /\ \E t \in CxTids, u \in CxTids :
        /\ pc[t] \in {"uret", "r301", "r307"}
        /\ pc[u] = "u252"

\* C7: with 2*maxThreads Combined instances and at most maxThreads threads
\* of distinct tids, the scan of applyUpdate never ends with newComb ==
\* nullptr.
C7_CombinedAvailable ==
    Legit => \A t \in CxTids : pc[t] # "u224"

C7_Witness ==
    /\ Legit
    /\ \E t \in CxTids : pc[t] = "u228" /\ L[t].i >= 2

\* C8: an applyUpdate call that finds no Combined lockable goes on to return
\* (a sentinel): the step it takes with newComb == nullptr leaves the process
\* running.
C8_NoCombinedReturns ==
    [][\A t \in CxTids : pc[t] = "u224" => proc' = "run"]_vars

(***************************************************************************)
(* Memory reclamation of the log nodes.                                    *)
(***************************************************************************)
\* The log nodes whose fields the next step of thread t reads or writes,
\* following the dereferences of the statement at pc[t].
Derefs(t) ==
    LET l == L[t]
        p == pc[t]
        RingSlot == ring[t].arr[IF l.cpos = max_size THEN 0 ELSE l.cpos] IN
    (IF p \in {"e141", "e146", "e149", "e152"} THEN {l.ltail}
     ELSE IF p = "e156" THEN {l.ltail, l.lnext}
     ELSE IF p \in {"h81", "u250", "u251"} THEN {l.mn}
     ELSE IF p = "h82" THEN {head[l.newComb]}
     ELSE IF p \in {"u215", "uret", "r307"} THEN {l.myNode}
     ELSE IF p = "u228" THEN {head[l.i]}
     ELSE IF p = "u236" THEN (IF l.mn = l.myNode THEN {} ELSE {l.mn})
     ELSE IF p \in {"g114", "u262"} THEN {head[l.lcomb]}
     ELSE IF p = "g116" THEN {l.lhead}
     ELSE IF p = "u252" THEN {l.lnext}
     ELSE IF p = "u274" THEN {l.node}
     ELSE IF p = "c62" THEN {RingSlot, l.node}
     ELSE IF p \in {"c66", "c67"} THEN {l.mNode}
     ELSE IF p = "r142"
          THEN (IF l.iret < Len(retired[t])
                THEN {retired[t][l.iret + 1]} ELSE {})
     ELSE IF p = "r151" THEN {l.robj}
     ELSE {}) \ {NULL}

\* C12: no thread reads or writes a field of a log node that retire has
\* deleted: every node the next step of a thread dereferences is allocated
\* and not freed.
C12_NoUseAfterFree ==
    (Legit /\ proc = "run") =>
        \A t \in CxTids : \A n \in Derefs(t) : mem[n] = "live"

\* A thread is about to dereference a node that another thread has passed to
\* retire and that retire has kept, while some node has been deleted.
C12_Witness ==
    /\ Legit /\ proc = "run"
    /\ \E n \in Nodes : mem[n] = "freed"
    /\ \E t \in CxTids, u \in CxTids :
          t # u /\ Derefs(t) \cap Range(retired[u]) # {}

\* Node n is deleted by the step: delete obj in retire.
Deleted(n) == mem[n] = "live" /\ mem'[n] = "freed"

NoHazard(n) == \A t \in DOMAIN hp : \A x \in DOMAIN hp[t] : hp[t][x] # n

\* C13: at the instant retire deletes a node, no hazard slot of any thread
\* contains the node, its refcnt is 0 and its next points to itself.
C13_DeleteConditions ==
    [][\A n \in Nodes :
          Deleted(n) => NoHazard(n) /\ refcnt[n] = 0 /\ next[n] = n]_vars

\* Slot x of thread u holds n although retire read the slot as different
\* from n: u stored there a pointer it had loaded before n was unlinked
\* (the tail in enqueue, the next of mn in applyUpdate), its validation of
\* the pointer fails, and u does not dereference n.
StaleSlot(u, x, n) ==
    /\ x \in {kHpTail, kHpTailNext, kHpHead, kHpNext}
    /\ tail # n
    /\ n \notin Derefs(u)

\* C13, amended: at the instant retire deletes a node its refcnt is 0 and
\* its next points to itself; a hazard slot that contains the node at that
\* instant was written after retire read the slot, by a thread that then
\* fails its validation and does not dereference the node.
C13_DeleteConditionsAmended ==
    [][\A n \in Nodes :
          Deleted(n) =>
              /\ refcnt[n] = 0 /\ next[n] = n
              /\ \A u \in DOMAIN hp : \A x \in DOMAIN hp[u] :
                    hp[u][x] = n => StaleSlot(u, x, n)]_vars

\* A deleted node is in a hazard slot of a thread that has not yet validated.
C13_Witness ==
    \E n \in Nodes, u \in CxTids :
        mem[n] = "freed" /\ hp[u][kHpTail] = n /\ pc[u] = "e140"

(***************************************************************************)
(* Properties of the destruction (DtorSpec).                               *)
(***************************************************************************)
\* The retired lists of all threads, one after the other.
RECURSIVE AllRetired(_)
AllRetired(ts) ==
    IF ts = {} THEN <<>>
    ELSE LET it == Min(ts) IN retired[it] \o AllRetired(ts \ {it})

NoDuplicate(s) == \A x \in DOMAIN s, y \in DOMAIN s : s[x] = s[y] => x = y

\* C14: every log node, the sentinel included, is deleted at most once over
\* an execution and its destruction: no node is deleted twice, no node is in
\* the retired lists twice, and no node in a retired list has been deleted.
C14_DeletedOnce ==
    Legit =>
        /\ \A n \in Nodes : mem[n] # "twice"
        /\ NoDuplicate(AllRetired(DOMAIN retired))
        /\ \A n \in Range(AllRetired(DOMAIN retired)) : mem[n] = "live"

\* The destructor of the hazard pointers is about to delete what the retired
\* lists hold, after retire has deleted a node and the sentinel was deleted.
C14_Witness ==
    /\ Legit /\ pc[0] = "d69"
    /\ AllRetired(DOMAIN retired) # <<>>
    /\ mem[sentinel] = "freed"
    /\ \E n \in Nodes \ {sentinel} : mem[n] = "freed"

\* C15: when the construct has been destroyed after all threads quiesced,
\* every log node ever created, the sentinel and every replica has been
\* freed.
C15_AllFreed ==
    (Legit /\ proc = "destroyed") =>
        /\ \A n \in Nodes : mem[n] # "live"
        /\ \A c \in DOMAIN obj : obj[c] \in {NullObj, FreedObj}

(***************************************************************************)
(* Properties of the ring of pre-retired nodes.                            *)
(***************************************************************************)
\* C16: the size of a thread's ring never exceeds max_size: add on a full
\* ring stores the node only after clean has removed an entry, so the store
\* at (begin + size) % max_size never hits a held entry.
C16_RingBounded ==
    Legit => \A t \in CxTids :
        /\ ring[t].size <= max_size
        /\ pc[t] \in {"c66", "c67", "r142", "r146", "r151"}
               => ring[t].size + L[t].ci = max_size

\* Thread t has the node in hand for a full ring that clean has emptied
\* before: clean is called again.
C16_Witness ==
    /\ Legit
    /\ \E t \in CxTids :
          /\ pc[t] = "c62" /\ ring[t].size = max_size
          /\ \E n \in Nodes : mem[n] = "freed"

(***************************************************************************)
(* Properties of a read-only use.                                          *)
(***************************************************************************)
\* After construction the threads call applyRead only.
ReadOnly == warm = 0 /\ \A t \in active : kinds[t] = {"read"}

\* C17: when threads call only applyRead, every applyRead is in its first
\* iteration and on the path sharedTryLock, read, sharedUnlock, return, and
\* no node is created or enqueued.
C17_ReadFastPath ==
    (Legit /\ ReadOnly /\ proc = "run") =>
        /\ \A t \in CxTids :
              /\ pc[t] \in {"idle", "s158", "s159", "s160", "r299", "r300",
                            "r301"}
              /\ L[t].i = 0
              /\ L[t].myNode = NULL
              /\ enqueuers[t] = NULL
        /\ tail = sentinel
        /\ \A n \in Nodes \ {sentinel} : mem[n] = "none"

\* Two threads run readFunc at once, one of them in its second call.
C17_Witness ==
    /\ Legit /\ ReadOnly
    /\ pc[0] = "r300" /\ pc[1] = "r300"
    /\ ops[0] = 0

(***************************************************************************)
(* UCSet over the construct: the object is a set, the closure of a node is *)
(* addFunc or removeFunc of one key.  The replica of the model is the      *)
(* sequence of the updates applied to it, and a node's result the replica  *)
(* its closure was applied to; the set and the returned bool follow.       *)
(***************************************************************************)
\* The key all calls use, and the set passed to the constructor.
TheKey == 7
InitialSet == {}

\* The closure of node n: addFunc for a thread's odd calls of UCSet,
\* removeFunc for the others.
IsAdd(n) == n % 2 = 1

\* set->add(key), set->remove(key) on the set s
SetApply(s, n) == IF IsAdd(n) THEN s \cup {TheKey} ELSE s \ {TheKey}
SetReturn(s, n) == IF IsAdd(n) THEN TheKey \notin s ELSE TheKey \in s

\* The set after the updates of the sequence h.
RECURSIVE SetAfter(_)
SetAfter(h) ==
    IF h = <<>> THEN InitialSet
    ELSE SetApply(SetAfter(SubSeq(h, 1, Len(h) - 1)), h[Len(h)])

\* What UCSet::add or UCSet::remove returned for node n.
SetReturned(n) == SetReturn(SetAfter(result[n]), n)

Quiescent == proc = "run" /\ \A t \in CxTids : pc[t] = "idle"

\* C18: when all threads have finished, the size of the set is the initial
\* size plus the number of add calls that returned true minus the number of
\* remove calls that returned true.
C18_SetSize ==
    (Legit /\ Quiescent) =>
        Cardinality(SetAfter(obj[curComb])) =
            Cardinality(InitialSet)
            + Cardinality({n \in done : IsAdd(n) /\ SetReturned(n)})
            - Cardinality({n \in done : ~IsAdd(n) /\ SetReturned(n)})

\* All calls have returned; thread 1's remove took the key that thread 0
\* added, and thread 0's remove returned false.
C18_Witness ==
    /\ Legit /\ Quiescent
    /\ \A t \in CxTids : ops[t] = 0
    /\ {1, 2, 6} \subseteq done
    /\ SetReturned(1) /\ SetReturned(6) /\ ~SetReturned(2)

(***************************************************************************)
(* UCQueue over the construct: the object is a FIFO queue, the closure of  *)
(* a node calls q->enqueue(item) or q->dequeue().                          *)
(***************************************************************************)
\* Node n is the k-th node of its thread.
CallIndex(n) ==
    IF n <= MaxOps THEN n ELSE ((n - MaxOps - 1) % MaxOpsOther) + 1

\* enqDeq: each thread calls enqueue, dequeue, enqueue, dequeue, ...
IsEnq(n) == CallIndex(n) % 2 = 1

\* q->enqueue(item), q->dequeue() on the queue q, an item being named by the
\* node that enqueued it; dequeue of an empty queue returns nullptr.
QueueApply(q, n, enq) ==
    IF enq THEN Append(q, n) ELSE IF q = <<>> THEN q ELSE Tail(q)
QueueReturn(q, n, enq) == IF enq THEN n ELSE IF q = <<>> THEN NULL ELSE Head(q)

\* The queue after the updates of the sequence h, in the pairs workload.
RECURSIVE QueueAfter(_)
QueueAfter(h) ==
    IF h = <<>> THEN <<>>
    ELSE QueueApply(QueueAfter(SubSeq(h, 1, Len(h) - 1)), h[Len(h)],
                    IsEnq(h[Len(h)]))

\* UCQueue::dequeue: (QItem*)uc.applyUpdate(func, tid), func returning the
\* bool of the item pointer: null exactly when q->dequeue() returned null.
DequeuedNull(n) == QueueReturn(QueueAfter(result[n]), n, FALSE) = NULL

BurstEnq(n, E) == n <= E

RECURSIVE BurstQueueAfter(_, _)
BurstQueueAfter(h, E) ==
    IF h = <<>> THEN <<>>
    ELSE QueueApply(BurstQueueAfter(SubSeq(h, 1, Len(h) - 1), E), h[Len(h)],
                    BurstEnq(h[Len(h)], E))

\* The item the dequeue of node n removed, NULL when the queue was empty.
BurstReturn(n, E) == QueueReturn(BurstQueueAfter(result[n], E), n, FALSE)

\* C20: after E enqueues on an empty queue have completed and dequeues
\* start only then, the dequeues returning non-null are as many as the
\* items (E, or the number of dequeues when fewer), every further dequeue
\* returns null, no item is returned twice, and the queue holds the rest.
C20_Burst ==
    (Legit /\ Quiescent) =>
        \A E \in 1 .. BurstWarm :
            LET enqs == {n \in done : BurstEnq(n, E)}
                deqs == {n \in done : ~BurstEnq(n, E)}
                nonnull == {n \in deqs : BurstReturn(n, E) # NULL} IN
            /\ Cardinality(nonnull) =
                   Min({Cardinality(enqs), Cardinality(deqs)})
            /\ \A n \in nonnull, m \in nonnull :
                   BurstReturn(n, E) = BurstReturn(m, E) => n = m
            /\ \A n \in nonnull : BurstReturn(n, E) \in enqs
            /\ Len(BurstQueueAfter(obj[curComb], E)) =
                   Cardinality(enqs) - Cardinality(nonnull)

\* All calls have returned in a burst of 2 enqueues: thread 1's dequeue took
\* the last item and a dequeue of thread 0 returned null.
C20_Witness ==
    /\ Legit /\ Quiescent
    /\ warm = 0 /\ \A t \in CxTids : ops[t] = 0
    /\ done = (1 .. MaxOps) \cup {MaxOps + 1}
    /\ BurstReturn(3, 2) = 1
    /\ BurstReturn(MaxOps + 1, 2) = 2
    /\ BurstReturn(4, 2) = NULL

(***************************************************************************)
(* Properties of the construct used by one thread.                         *)
(***************************************************************************)
\* The sequential instance after the first k updates of thread 0, whose
\* nodes are 1, 2, ... in the order of its applyUpdate calls.
Sequential(k) == [x \in 1 .. k |-> x]

\* C21: used by a single thread, every applyUpdate and applyRead returns
\* what its closure returns on one sequential instance that has run the
\* earlier closures in call order, and the replica curComb designates is
\* that instance.
C21_SingleThread ==
    (Legit /\ active = {0} /\ proc = "run") =>
        /\ pc[0] = "uret" => result[L[0].myNode] = Sequential(L[0].myNode - 1)
        /\ pc[0] = "r301" => L[0].ret = Sequential(Cardinality(done))
        /\ pc[0] \notin {"r294", "r304", "r307", "r292c"}
        /\ pc[0] = "idle" => obj[curComb] = Sequential(Cardinality(done))

\* The fifth call of the thread, a read after three updates and a read, is
\* about to return.
C21_Witness ==
    /\ Legit /\ active = {0}
    /\ pc[0] = "r301" /\ ops[0] = 0
    /\ Cardinality(done) = 3

(***************************************************************************)
(* Properties of enqueue and of the log.                                   *)
(***************************************************************************)
EnqPcs == {"e135", "e139", "e139h", "e140", "e141", "e146", "e149", "e152",
           "e154", "e155", "e156", "e157", "e160"}

\* enqueue(myNode, tid) has returned to thread t, which has not taken a step
\* since: in applyUpdate at line 215, in applyRead at the sharedTryLock that
\* follows the enqueue.
Enqueued(t) ==
    \/ pc[t] = "u215"
    \/ /\ pc[t] = "s158" /\ L[t].op = "read"
       /\ L[t].i = MAX_READ_TRIES /\ L[t].myNode # NULL

\* The nodes reachable from node n through at most k next pointers.
RECURSIVE Reach(_, _)
Reach(n, k) ==
    IF k = 0 \/ next[n] = NULL \/ next[n] = n THEN {n}
    ELSE {n} \cup Reach(next[n], k - 1)

\* The node that precedes n in the log: the one whose ticket is one less.
Pred(n) ==
    CHOOSE p \in Nodes : /\ p = sentinel \/ ticket[p] > 0
                         /\ ticket[p] + 1 = ticket[n]

\* C22: enqueue runs at most maxThreads iterations of its loop, and when it
\* returns myNode is reachable from the sentinel through next pointers, its
\* ticket is non-zero, tail is myNode or a later node, and enqueuers[tid] is
\* null.
C22_EnqueuePost ==
    Legit => \A t \in CxTids :
        /\ pc[t] \in EnqPcs => L[t].ei < maxThreads \/ pc[t] = "e160"
        /\ Enqueued(t) =>
              /\ L[t].myNode \in Reach(sentinel, Cardinality(Nodes))
              /\ ticket[L[t].myNode] > 0
              /\ ticket[tail] >= ticket[L[t].myNode]
              /\ enqueuers[t] = NULL

\* C22, amended: as above, except that myNode is linked after the node whose
\* ticket is one less: that node's next is myNode, or the node itself once
\* clean has tombstoned it; the sentinel may have been tombstoned too.
C22_EnqueuePostAmended ==
    Legit => \A t \in CxTids :
        /\ pc[t] \in EnqPcs => L[t].ei < maxThreads \/ pc[t] = "e160"
        /\ Enqueued(t) =>
              /\ ticket[L[t].myNode] > 0
              /\ \E p \in Nodes : /\ p = sentinel \/ ticket[p] > 0
                                  /\ ticket[p] + 1 = ticket[L[t].myNode]
              /\ next[Pred(L[t].myNode)] \in {L[t].myNode, Pred(L[t].myNode)}
              /\ ticket[tail] >= ticket[L[t].myNode]
              /\ enqueuers[t] = NULL

\* enqueue has returned to a thread whose node follows a node that clean
\* has tombstoned.
C22_Witness ==
    /\ Legit
    /\ \E t \in CxTids :
          /\ Enqueued(t)
          /\ next[Pred(L[t].myNode)] = Pred(L[t].myNode)

(***************************************************************************)
(* C23.  Tickets along the log.                                            *)
(***************************************************************************)
\* The nodes n whose next is a successor: neither null nor n itself, both
\* allocated and not deleted.
HasSuccessor(n) ==
    /\ mem[n] = "live"
    /\ next[n] \notin {NULL, n}
    /\ mem[next[n]] = "live"

\* No store changes a ticket that has been assigned.
TicketKept == \A n \in Nodes : ticket[n] # 0 => ticket'[n] = ticket[n]

\* C23 as stated: the sentinel has ticket 0, every node that is the next of
\* a node has the ticket of that node plus 1, and an assigned ticket is never
\* changed by a later store.
C23_TicketsIncrease ==
    /\ [](Legit => /\ ticket[sentinel] = 0
                   /\ \A n \in Nodes :
                         HasSuccessor(n) => ticket[next[n]] = ticket[n] + 1)
    /\ [][Legit => TicketKept]_vars

\* C23 amended: the sentinel has ticket 0, every node that is the next of a
\* node has the ticket of that node plus 1, except the next of the tail, whose
\* ticket is 0 from the CAS that links it (line 149) to the first store of
\* its ticket (line 156); an assigned ticket is never changed by a later
\* store, the stores of delayed helpers included.
C23_TicketsIncreaseAmended ==
    /\ [](Legit => /\ ticket[sentinel] = 0
                   /\ \A n \in Nodes :
                         HasSuccessor(n) =>
                            \/ ticket[next[n]] = ticket[n] + 1
                            \/ n = tail /\ ticket[next[n]] = 0)
    /\ [][Legit => TicketKept]_vars

\* A delayed helper is about to store the ticket of a node that has its
\* ticket already, after the tail has moved past the node it read as tail.
C23_Witness ==
    /\ Legit
    /\ \E t \in CxTids :
          /\ pc[t] = "e156"
          /\ ticket[L[t].lnext] # 0
          /\ tail # L[t].ltail

(***************************************************************************)
(* C24.  A node is linked once.                                            *)
(***************************************************************************)
\* The CAS of line 149 succeeds on a and links the node next'[a].
Links(a) == next[a] = NULL /\ next'[a] \notin {NULL, a}

\* A step that links a node links one that is published in enqueuers[], has
\* no ticket and is the next of no node; a next that is a successor changes
\* only to the node itself (CircularArray::clean).
LinkedOnce ==
    \A a \in Nodes :
       /\ Links(a) =>
             LET m == next'[a] IN
             /\ m # sentinel
             /\ enqueuers[enqTid(m)] = m
             /\ ticket[m] = 0
             /\ \A b \in Nodes : next[b] # m
       /\ (mem[a] = "live" /\ mem'[a] = "live" /\ next[a] \notin {NULL, a})
             => next'[a] \in {next[a], a}

\* C24: every node published in enqueuers[] is linked exactly once: no two
\* nodes have the same position (ticket) in the log, no node is the next of
\* two different nodes, and no step links a node that is linked already.
C24_LinkedOnce ==
    /\ [](Legit =>
            \A a, b \in Nodes :
               (a # b /\ mem[a] = "live" /\ mem[b] = "live") =>
                  /\ ticket[a] # 0 => ticket[a] # ticket[b]
                  /\ (HasSuccessor(a) /\ HasSuccessor(b)) => next[a] # next[b])
    /\ [][Legit => LinkedOnce]_vars

\* A helper is at the CAS of line 149 with a node it read from enqueuers[]
\* that has been linked, and given a ticket, since.
C24_Witness ==
    /\ Legit
    /\ \E t \in CxTids :
          /\ pc[t] = "e149"
          /\ ticket[L[t].nodeToHelp] # 0
          /\ next[L[t].ltail] \notin {NULL, L[t].nodeToHelp}

(***************************************************************************)
(* CXMutationWFTimed.  The class has the members of CXMutationWF, plus     *)
(* copyTime and Node::done; its applyUpdate differs by the search for a    *)
(* Combined, getNewComb.  For thread 0 getNewComb and the locks are        *)
(* modelled statement by statement; for the other threads a call of        *)
(* getNewComb is one step.  enqueue, and the statements of applyUpdate     *)
(* after getNewComb, are one step for each lock operation they end with;   *)
(* no thread holds a lock shared in these runs, so that abortRollback()    *)
(* changes nothing and exclusiveUnlock() and downgrade() are one store.    *)
(* The runs retire fewer nodes than a CircularArray holds, so no node is   *)
(* unlinked or deleted.                                                    *)
(***************************************************************************)
MaxTimedTid == 3
TimedTids == 0 .. MaxTimedTid
\* const int MAX_COMBS = 4;
MAX_COMBS == 4
\* for (int ispin = 0; ispin < 10; ispin++): the number of spins
SpinTries == 1
\* The durations copyDS may measure, and the elapsed times that differ for
\* the test of line 777, in microseconds.
MaxCopyTime == 1
CopyTimes == 0 .. MaxCopyTime
MaxElapsed == 2 * MaxCopyTime

\* const int maxCombs = std::min((2*maxThreads),MAX_COMBS);
maxCombs == Min({2 * maxThreads, MAX_COMBS})

\* CXMutationWFTimed(C* inst, const int maxThreads)
TimedInit ==
    LET valid == IF MaxTimedTid + 1 >= 2 THEN 4 ELSE 2
        cs == 0 .. (2 * (MaxTimedTid + 1) - 1) IN
    /\ maxThreads = MaxTimedTid + 1
    /\ active = TimedTids
    /\ ops = [t \in TimedTids |-> 1]
    /\ kinds = [t \in TimedTids |-> {"upd"}]
    /\ warm = 0
    /\ proc = "run"
    /\ head = [c \in cs |-> IF c < valid THEN sentinel ELSE NULL]
    /\ obj = [c \in cs |-> IF c < valid THEN <<>> ELSE NullObj]
    /\ wstate = [c \in cs |-> IF c = 0
                              THEN setReadLock([seq |-> 0, state |-> NOLOCK])
                              ELSE [seq |-> 0, state |-> NOLOCK]]
    /\ ri = [c \in cs |-> [t \in TimedTids |-> NOT_READING]]
    /\ curComb = 0
    /\ tail = sentinel
    /\ enqueuers = [t \in TimedTids |-> NULL]
    /\ next = [n \in Nodes |-> NULL]
    /\ ticket = [n \in Nodes |-> 0]
    /\ refcnt = [n \in Nodes |-> IF n = sentinel THEN valid ELSE 0]
    /\ result = [n \in Nodes |-> Unwritten]
    /\ mutation = [n \in Nodes |-> IF n = sentinel THEN "read" ELSE "none"]
    /\ mem = [n \in Nodes |-> IF n = sentinel THEN "live" ELSE "none"]
    /\ hp = [t \in TimedTids |-> [x \in 0 .. (maxHPs - 1) |-> NULL]]
    /\ ring = [t \in TimedTids |->
                  [arr |-> [x \in 0 .. (max_size - 1) |-> NULL],
                   begin |-> 0, size |-> 0, min_size |-> min_size]]
    /\ retired = [t \in TimedTids |-> <<>>]
    /\ pc = [t \in TimedTids |-> "idle"]
    /\ L = [t \in TimedTids |-> L0]
    /\ pubMax = 0
    /\ done = {}
    /\ calls = 0
    /\ seen = <<>>
    /\ cand = <<>>
    /\ pending = {}
    /\ drain = <<>>
    \* alignas(128) std::atomic<microseconds> copyTime {0us};  0 as long as
    \* no replica has been copied, else the duration of the latest copy
    /\ \E d \in CopyTimes : copyTime = d
    /\ nodeDone = {}
    /\ counting = FALSE

\* What the statements of CXMutationWFTimed never write here.
TimedFrame == UNCHANGED <<active, maxThreads, kinds, calls, ghostVars, warm,
                          counting, pubMax, done, enqueuers, next, mem, reclVars>>
\* The same for the statements that store no result.
TimedRest == TimedFrame /\ UNCHANGED result

\* Return from applyUpdate.
TimedReturn(t) ==
    /\ Goto(t, "idle")
    /\ L' = [L EXCEPT ![t] = L0]

\* Node* myNode = new Node(mutativeFunc, tid);  enqueue(myNode, tid);
\* const uint64_t myTicket = myNode->ticket.load();
\* getNewComb: Combined* firstComb = curComb.load(); the search of start;
\* auto startTime = steady_clock::now();
timed_857(t) ==
    /\ pc[t] = "idle" /\ ops[t] > 0 /\ proc = "run"
    /\ t = 0
    /\ LET n == t + 1
           k == ticket[tail] + 1 IN
       /\ ticket' = [ticket EXCEPT ![n] = k]
       /\ mutation' = [mutation EXCEPT ![n] = "upd"]
       /\ tail' = n
       /\ L' = [L EXCEPT ![t].op = "upd", ![t].myNode = n, ![t].myTicket = k,
                         ![t].start = curComb, ![t].ispin = 0,
                         ![t].j = curComb + 1, ![t].timeus = 0]
    /\ ops' = [ops EXCEPT ![t] = @ - 1]
    /\ Goto(t, "g767")
    /\ UNCHANGED <<lockVars, proc, combVars, refcnt, timedVars>>

\* exclusiveTryLock(tid) on combs[c], run without a step of another thread
\* in between: true iff no writer or reader holds the lock; the lock word
\* after it.
TryLockAlone(c) ==
    /\ ~ExclusiveRefuses(wstate[c].state)
    /\ \A u \in active : ~SlotBusy(c, u)
LockedAlone(c) ==
    IF wstate[c].state = HLOCK
    THEN [seq |-> wstate[c].seq, state |-> WLOCK]
    ELSE [seq |-> wstate[c].seq + 1, state |-> WLOCK]

\* One pass of the loop of lines 766-770 from j, run alone: the Combined it
\* locks, or NULL.
RECURSIVE SpinAlone(_, _)
SpinAlone(j, lim) ==
    IF j >= lim THEN NULL
    ELSE LET j1 == IF obj[j % maxCombs] = NullObj /\ j < maxCombs
                   THEN j + 1 ELSE j
             c == j1 % maxCombs IN
         IF TryLockAlone(c) THEN c ELSE SpinAlone(j1 + 1, lim)

\* The loops of lines 778-781 and 789-792 run alone over the first n slots.
ScanAlone(n) ==
    IF \E c \in 0 .. (n - 1) : TryLockAlone(c)
    THEN Min({c \in 0 .. (n - 1) : TryLockAlone(c)})
    ELSE NULL

\* applyUpdate of a thread other than thread 0, up to the return of
\* getNewComb, run alone.  With no lock free among the first maxCombs and
\* copyTime 0 the loop of line 777 does not end while no other thread takes
\* a step.
timedOther_857(t) ==
    /\ pc[t] = "idle" /\ ops[t] > 0 /\ proc = "run"
    /\ t # 0
    /\ LET n == t + 1
           k == ticket[tail] + 1
           spin == SpinAlone(curComb + 1, curComb + 1 + maxCombs)
           c == IF spin # NULL THEN spin ELSE ScanAlone(2 * maxThreads) IN
       /\ spin # NULL \/ copyTime # 0
       /\ ticket' = [ticket EXCEPT ![n] = k]
       /\ mutation' = [mutation EXCEPT ![n] = "upd"]
       /\ tail' = n
       /\ L' = [L EXCEPT ![t].op = "upd", ![t].myNode = n, ![t].myTicket = k,
                         ![t].start = curComb, ![t].newComb = c]
       /\ wstate' = IF c = NULL THEN wstate
                    ELSE [wstate EXCEPT ![c] = LockedAlone(c)]
       /\ Goto(t, IF c = NULL THEN "t864" ELSE "t868")
    /\ ops' = [ops EXCEPT ![t] = @ - 1]
    /\ UNCHANGED <<ri, proc, combVars, refcnt, timedVars>>

\* if (myNode->done.load()) return nullptr;     in the loop of the spins
getNewComb_767(t) ==
    /\ pc[t] = "g767"
    /\ Goto(t, IF L[t].myNode \in nodeDone THEN "t864" ELSE "g768")
    /\ UNCHANGED <<L, lockVars, ops, proc, combVars, tail, ticket, mutation,
                   refcnt, timedVars>>

\* if(combs[j%maxCombs].obj==nullptr && j<maxCombs) j++;
\* if (combs[j%maxCombs].rwLock.exclusiveTryLock(tid)) return &combs[j%maxCombs];
getNewComb_768(t) ==
    /\ pc[t] = "g768"
    /\ LET j1 == IF obj[L[t].j % maxCombs] = NullObj /\ L[t].j < maxCombs
                 THEN L[t].j + 1 ELSE L[t].j
           c == j1 % maxCombs IN
       ExclusiveTryLockEntry(t, c, [L[t] EXCEPT !.j = j1, !.newComb = c],
                             "t868", "g766")
    /\ UNCHANGED <<lockVars, ops, proc, combVars, tail, ticket, mutation,
                   refcnt, timedVars>>

\* j++ and the test j < start+1+maxCombs; ispin++ and the test ispin < 10
getNewComb_766(t) ==
    /\ pc[t] = "g766"
    /\ IF L[t].j + 1 < L[t].start + 1 + maxCombs
       THEN /\ L' = [L EXCEPT ![t].j = @ + 1, ![t].newComb = NULL]
            /\ Goto(t, "g767")
       ELSE IF L[t].ispin + 1 < SpinTries
       THEN /\ L' = [L EXCEPT ![t].ispin = @ + 1, ![t].j = L[t].start + 1,
                              ![t].newComb = NULL]
            /\ Goto(t, "g767")
       ELSE /\ L' = [L EXCEPT ![t].ispin = 0, ![t].j = 0, ![t].newComb = NULL]
            /\ Goto(t, "g773")
    /\ UNCHANGED <<lockVars, ops, proc, combVars, tail, ticket, mutation,
                   refcnt, timedVars>>

\* auto endTime = steady_clock::now();
\* microseconds timeus = duration_cast<microseconds>(endTime-startTime);
getNewComb_773(t) ==
    /\ pc[t] = "g773"
    /\ \E d \in 0 .. MaxElapsed : L' = [L EXCEPT ![t].timeus = d]
    /\ Goto(t, "g777")
    /\ UNCHANGED <<lockVars, ops, proc, combVars, tail, ticket, mutation,
                   refcnt, timedVars>>

\* The test of the loop of line 777
KeepsYieldingMut(us, ct) == us < ct * 2
KeepsYielding(us, ct) == us < ct * 2 \/ ct = 0

\* while (timeus < copyTime.load()*2 || copyTime.load()==0us) {
getNewComb_777(t) ==
    /\ pc[t] = "g777"
    /\ L' = [L EXCEPT ![t].i = 0]
    /\ Goto(t, IF KeepsYielding(L[t].timeus, copyTime) THEN "g779" ELSE "g790")
    /\ UNCHANGED <<lockVars, ops, proc, combVars, tail, ticket, mutation,
                   refcnt, timedVars>>

\* if (myNode->done.load()) return nullptr;
\* if (combs[i].rwLock.exclusiveTryLock(tid)) return &combs[i];
getNewComb_779(t) ==
    /\ pc[t] = "g779"
    /\ IF L[t].myNode \in nodeDone
       THEN Goto(t, "t864") /\ UNCHANGED L
       ELSE ExclusiveTryLockEntry(t, L[t].i, [L[t] EXCEPT !.newComb = L[t].i],
                                  "t868", "g778")
    /\ UNCHANGED <<lockVars, ops, proc, combVars, tail, ticket, mutation,
                   refcnt, timedVars>>

\* i++ and the test i < maxCombs
getNewComb_778(t) ==
    /\ pc[t] = "g778"
    /\ L' = [L EXCEPT ![t].i = @ + 1, ![t].newComb = NULL]
    /\ Goto(t, IF L[t].i + 1 < maxCombs THEN "g779" ELSE "g782")
    /\ UNCHANGED <<lockVars, ops, proc, combVars, tail, ticket, mutation,
                   refcnt, timedVars>>

\* std::this_thread::yield();  endTime = steady_clock::now();
\* timeus = duration_cast<microseconds>(endTime-startTime);
getNewComb_782(t) ==
    /\ pc[t] = "g782"
    /\ \E d \in 0 .. 1 :
          L' = [L EXCEPT ![t].timeus = Min({@ + d, MaxElapsed})]
    /\ Goto(t, "g777")
    /\ UNCHANGED <<lockVars, ops, proc, combVars, tail, ticket, mutation,
                   refcnt, timedVars>>

\* for (int i = 0; i < 2*maxThreads; i++) {
\*     if (myNode->done.load()) return nullptr;
\*     if (combs[i].rwLock.exclusiveTryLock(tid)) return &combs[i];
getNewComb_790(t) ==
    /\ pc[t] = "g790"
    /\ IF L[t].myNode \in nodeDone
       THEN Goto(t, "t864") /\ UNCHANGED L
       ELSE ExclusiveTryLockEntry(t, L[t].i, [L[t] EXCEPT !.newComb = L[t].i],
                                  "t868", "g789")
    /\ UNCHANGED <<lockVars, ops, proc, combVars, tail, ticket, mutation,
                   refcnt, timedVars>>

\* i++ and the test i < 2*maxThreads;  return nullptr;
getNewComb_789(t) ==
    /\ pc[t] = "g789"
    /\ L' = [L EXCEPT ![t].i = @ + 1, ![t].newComb = NULL]
    /\ Goto(t, IF L[t].i + 1 < 2 * maxThreads THEN "g790" ELSE "t864")
    /\ UNCHANGED <<lockVars, ops, proc, combVars, tail, ticket, mutation,
                   refcnt, timedVars>>

\* if (newComb == nullptr) {
\*     if (myNode->done.load()) return myNode->result.load();
\*     assert(false);
timed_864(t) ==
    /\ pc[t] = "t864"
    /\ proc' = IF L[t].myNode \in nodeDone THEN proc ELSE "abort"
    /\ TimedReturn(t)
    /\ UNCHANGED <<lockVars, ops, combVars, tail, ticket, mutation, refcnt,
                   timedVars>>

\* Node* mn = newComb->head;
\* if (mn != nullptr && mn->ticket.load() >= myTicket) {
\*     newComb->rwLock.exclusiveUnlock();  return myNode->result.load();
timed_869(t) ==
    /\ pc[t] = "t868"
    /\ LET mn == head[L[t].newComb] IN
       IF mn # NULL /\ ticket[mn] >= L[t].myTicket
       THEN /\ wstate' = StoreState(L[t].newComb, NOLOCK)
            /\ TimedReturn(t)
       ELSE Goto(t, "t875") /\ UNCHANGED <<L, wstate>>
    /\ UNCHANGED <<ri, ops, proc, combVars, tail, ticket, mutation, refcnt,
                   timedVars>>

\* lnext->result.store(lnext->mutation(newComb->obj), relaxed);  for every
\* node of the walk from the node from to the node of ticket k
WalkResultsNone(from, k) == result
WalkResults(from, k) ==
    [n \in Nodes |-> IF ticket[n] > ticket[from] /\ ticket[n] <= k
                     THEN MutationResult(n, LogBelow(ticket[n]))
                     ELSE result[n]]

\* while (mn != myNode) { ... }  newComb->updateHead(mn);
\* newComb->rwLock.downgrade();
\* With mn == nullptr: if myNode->done or getCombined returns nullptr,
\* exclusiveUnlock and return; else updateHead, copyDS from curComb's
\* Combined, which stores the measured duration in copyTime.
timed_875(t) ==
    /\ pc[t] = "t875"
    /\ LET c == L[t].newComb
           mn == head[c]
           me == L[t].myNode IN
       IF mn = NULL /\ (me \in nodeDone
                        \/ ticket[head[curComb]] >= L[t].myTicket)
       THEN /\ wstate' = StoreState(c, NOLOCK)
            /\ TimedReturn(t)
            /\ UNCHANGED <<head, obj, refcnt, copyTime, result>>
       ELSE /\ head' = [head EXCEPT ![c] = me]
            /\ obj' = [obj EXCEPT ![c] = LogBelow(L[t].myTicket + 1)]
            /\ result' = WalkResults(IF mn = NULL THEN head[curComb] ELSE mn,
                                     L[t].myTicket)
            /\ refcnt' = IF mn = NULL
                         THEN [refcnt EXCEPT ![me] = @ + 1]
                         ELSE [refcnt EXCEPT ![me] = @ + 1, ![mn] = @ - 1]
            /\ IF mn = NULL
               THEN \E d \in CopyTimes : copyTime' = d
               ELSE UNCHANGED copyTime
            /\ wstate' = StoreState(c, DrainState)
            /\ Goto(t, "t901")
            /\ UNCHANGED L
    /\ UNCHANGED <<ri, ops, proc, curComb, tail, ticket, mutation, nodeDone>>

\* for (int i = 0; i < maxThreads; i++) { lcomb = curComb.load(); ...
\*     if (curComb.compare_exchange_strong(tmp, newComb)) {
\*         lcomb->rwLock.setReadUnlock();
\*         while (node != mn) { node->done.store(true, ...); ... }
\*         return myNode->result.load(); } }
\* newComb->rwLock.setReadUnlock();
timed_901(t) ==
    /\ pc[t] = "t901"
    /\ LET old == curComb
           lo == ticket[head[old]] IN
       IF lo >= L[t].myTicket
       THEN /\ wstate' = setReadUnlock(L[t].newComb)
            /\ UNCHANGED <<curComb, nodeDone>>
       ELSE /\ curComb' = L[t].newComb
            /\ wstate' = setReadUnlock(old)
            /\ nodeDone' = nodeDone \cup
                  {n \in Nodes : /\ n = sentinel \/ ticket[n] > 0
                                 /\ ticket[n] >= lo
                                 /\ ticket[n] < L[t].myTicket}
    /\ TimedReturn(t)
    /\ UNCHANGED <<ri, ops, proc, head, obj, tail, ticket, mutation, refcnt,
                   copyTime>>

\* A step of thread t in applyUpdate of CXMutationWFTimed.  Thread 0 alone
\* is inside exclusiveTryLock, so that it never loads a lock word in state
\* HLOCK: lines 182-183 of the lock are not reached.
TimedStep(t) ==
        \/ timed_857(t) /\ TimedRest
        \/ timedOther_857(t) /\ TimedRest
        \/ getNewComb_767(t) /\ TimedRest
        \/ getNewComb_768(t) /\ TimedRest
        \/ getNewComb_766(t) /\ TimedRest
        \/ getNewComb_773(t) /\ TimedRest
        \/ getNewComb_777(t) /\ TimedRest
        \/ getNewComb_779(t) /\ TimedRest
        \/ getNewComb_778(t) /\ TimedRest
        \/ getNewComb_782(t) /\ TimedRest
        \/ getNewComb_790(t) /\ TimedRest
        \/ getNewComb_789(t) /\ TimedRest
        \/ timed_864(t) /\ TimedRest
        \/ timed_869(t) /\ TimedRest
        \/ timed_875(t) /\ TimedFrame
        \/ timed_901(t) /\ TimedRest
        \/ exclusiveTryLock_180(t) /\ LFrame
        \/ exclusiveTryLock_186(t) /\ LFrame
        \/ exclusiveTryLock_187(t) /\ LFrame
        \/ exclusiveTryLock_188(t) /\ LFrame
        \/ exclusiveTryLock_189(t) /\ LFrame

TimedNext == \E t \in TimedTids : TimedStep(t)

\* The clock read after a yield is later than the one read before it.
ClockAdvances(t) ==
    getNewComb_782(t) /\ L'[t].timeus > L[t].timeus /\ TimedRest

\* Thread 0 keeps taking steps, whatever the other threads do.
TimedSpec ==
    /\ TimedInit /\ [][TimedNext]_vars
    /\ WF_vars(TimedStep(0))
    /\ SF_vars(ClockAdvances(0))

(***************************************************************************)
(* C25.  The search for a Combined of the timed variant.                   *)
(***************************************************************************)
\* C25: a call of applyUpdate by thread 0 returns, whatever the other
\* writers do and wherever they stop, as long as thread 0 keeps taking steps
\* and its clock advances: getNewComb spins over the first slots, yields for
\* no longer than twice copyTime, scans all the slots and returns.
C25_UpdateReturns == (pc[0] # "idle") ~> (pc[0] = "idle")

(***************************************************************************)
(* C26.  A replica is a prefix of the log.                                 *)
(***************************************************************************)
\* The step of line 252 by thread t that applies a node.
Applies(t) == pc[t] = "u252" /\ pc'[t] # "u252"

\* C26: the obj of every Combined that no writer holds exclusively is the
\* initial object with the closures of the nodes of tickets 1 .. head.ticket
\* applied once each, in ticket order; and the writer that holds a Combined
\* exclusively applies to it the node whose ticket follows the ticket of the
\* last node applied, to the object that holds exactly the nodes before it.
C26_ReplicaIsPrefix ==
    /\ [](Legit => \A c \in Combs :
            (wstate[c].state # WLOCK /\ head[c] # NULL) =>
                obj[c] = LogBelow(ticket[head[c]] + 1))
    /\ [][Legit => \A t \in CxTids :
            Applies(t) =>
               LET c == L[t].newComb
                   n == L[t].lnext IN
               /\ wstate[c].state = WLOCK
               /\ ticket[n] = ticket[L[t].mn] + 1
               /\ obj[c] = LogBelow(ticket[n])
               /\ obj'[c] = LogBelow(ticket[n] + 1)]_vars

\* A writer that copied the replica of another Combined is about to apply a
\* node to the copy, and a Combined other than curComb's, held by no one,
\* has a head other than the sentinel.
C26_Witness ==
    /\ Legit
    /\ \E t \in CxTids :
          /\ pc[t] = "u252"
          /\ L[t].lcomb # NULL
          /\ obj[L[t].newComb] # <<>>
    /\ \E c \in Combs :
          /\ c # curComb
          /\ wstate[c].state = NOLOCK
          /\ head[c] \notin {NULL, sentinel}

(***************************************************************************)
(* C27.  The copy of a replica.                                            *)
(***************************************************************************)
\* Thread t is between the return of getCombined with a Combined (line 241)
\* and the sharedUnlock of that Combined (line 247).
InCopy(t) ==
    \/ pc[t] \in {"u242", "u245", "u247"}
    \/ pc[t] \in {"h81", "h82"} /\ L[t].hret = "u245"

\* C27: a writer that copies a replica holds the destination exclusively and
\* the source shared from the return of getCombined to the sharedUnlock, and
\* no step changes the head or the obj of the source meanwhile; the head of
\* the source has a ticket below the writer's and is not tombstoned at the
\* test of line 116; once the copy is made the head and the obj of the
\* destination are those of the source.
C27_Copy ==
    /\ [](Legit => \A t \in CxTids :
            InCopy(t) =>
               LET d == L[t].newComb
                   s == L[t].lcomb IN
               /\ d # s
               /\ wstate[d].state = WLOCK
               /\ ri[s][t] = READING /\ wstate[s].state # WLOCK
               /\ ticket[head[s]] < L[t].myTicket
               /\ pc[t] \in {"u245", "u247"} => head[d] = head[s]
               /\ pc[t] = "u247" => obj[d] = obj[s])
    /\ [][Legit => \A t \in CxTids :
            /\ (InCopy(t) /\ InCopy(t)') =>
                  /\ head'[L[t].lcomb] = head[L[t].lcomb]
                  /\ obj'[L[t].lcomb] = obj[L[t].lcomb]
            /\ (pc[t] = "g116" /\ pc'[t] = "u242") =>
                  /\ L[t].lhead = head[L[t].lcomb]
                  /\ ticket[L[t].lhead] < L[t].myTicket
                  /\ next[L[t].lhead] # L[t].lhead]_vars

\* A writer has copied the replica of a Combined whose head is not the
\* sentinel and is about to release its shared hold of it.
C27_Witness ==
    /\ Legit
    /\ \E t \in CxTids :
          /\ pc[t] = "u247"
          /\ head[L[t].lcomb] # sentinel
          /\ obj[L[t].newComb] # <<>>

(***************************************************************************)
(* C28.  The nodes whose next points to themselves.                        *)
(***************************************************************************)
\* C28: the next of a node is set to the node itself by a step only when
\* the node's ticket is below the ticket of the head of curComb's Combined,
\* and no step changes it afterwards, so that it is set at most once; the
\* head of curComb's Combined and the nodes after it never have their next
\* pointing to themselves.
C28_Tombstones ==
    /\ [](Legit => \A n \in Nodes :
            next[n] = n => ticket[n] < ticket[head[curComb]])
    /\ [][Legit => \A n \in Nodes :
            /\ next[n] = n => next'[n] = n
            /\ (next[n] # n /\ next'[n] = n) =>
                  /\ ticket[n] < ticket[head[curComb]]
                  /\ ticket'[n] < ticket'[head'[curComb']]]_vars

\* clean has set the next of a node other than the sentinel, the last one
\* its test lets it take: its ticket is min_size below that of the node
\* before the head of curComb's Combined.
C28_Witness ==
    /\ Legit
    /\ \E n \in Nodes :
          /\ n # sentinel
          /\ next[n] = n
          /\ ticket[n] + min_size + 1 = ticket[head[curComb]]

(***************************************************************************)
(* C29.  The scan of CircularArray::clean.                                 *)
(***************************************************************************)
\* The entry that thread t, at the test of line 62, is looking at.
ScanPos(t) == IF L[t].cpos = max_size THEN 0 ELSE L[t].cpos
Scanned(t) == ring[t].arr[ScanPos(t)]

\* The test of line 62 by thread t ends the scan: the entry stays, it is the
\* oldest of the ring from now on, and the node is added.
ScanStops(t) ==
    /\ pc'[t] # "c66"
    /\ ring'[t].begin = ScanPos(t)
    /\ ring'[t].arr[ScanPos(t)] = Scanned(t)
    /\ ring'[t].size = ring[t].size + 1
    /\ next'[Scanned(t)] = next[Scanned(t)]

\* The entries are taken from the oldest on, one after the other, and an
\* entry is unlinked only after the test of line 62 let it pass.
ScanInOrder(t) ==
    /\ pc[t] = "c62" =>
          ScanPos(t) = (ring[t].begin + L[t].ci) % max_size
    /\ pc[t] \in {"c66", "c67"} =>
          /\ L[t].mNode = ring[t].arr[(ring[t].begin + L[t].ci) % max_size]
          /\ ~TicketAbove(L[t].mNode, L[t].node, ring[t].min_size)

\* C29 as stated: on a full ring clean takes the entries from the oldest on
\* and unlinks and removes an entry iff its ticket is strictly less than
\* node.ticket - min_size; at the first entry that is not, it stops, and
\* that entry is kept.
C29_CleanScan ==
    /\ [](Legit => \A t \in CxTids : ScanInOrder(t))
    /\ [][Legit => \A t \in CxTids :
            (pc[t] = "c62" /\ pc'[t] # "c62") =>
               IF ticket[Scanned(t)] + ring[t].min_size < ticket[L[t].node]
               THEN pc'[t] = "c66"
               ELSE ScanStops(t)]_vars

\* C29 amended: clean unlinks and removes an entry iff its ticket is less
\* than or equal to node.ticket - min_size; it stops at the first entry
\* whose ticket is greater, and keeps it.
C29_CleanScanAmended ==
    /\ [](Legit => \A t \in CxTids : ScanInOrder(t))
    /\ [][Legit => \A t \in CxTids :
            (pc[t] = "c62" /\ pc'[t] # "c62") =>
               IF ticket[Scanned(t)] + ring[t].min_size <= ticket[L[t].node]
               THEN pc'[t] = "c66"
               ELSE ScanStops(t)]_vars

\* clean has removed an entry and is at the test of line 62 with an entry
\* that it keeps.
C29_Witness ==
    /\ Legit
    /\ \E t \in CxTids :
          /\ pc[t] = "c62"
          /\ L[t].ci >= 1
          /\ TicketAbove(Scanned(t), L[t].node, ring[t].min_size)

(***************************************************************************)
(* C30.  Node::refcnt counts the Combined instances whose head is the node.*)
(***************************************************************************)
\* The number of Combined instances whose head is node n.
HeadCount(n) == Cardinality({c \in DOMAIN head : head[c] = n})

\* Thread t is inside Combined::updateHead.
InUpdateHead(t) == pc[t] \in {"h81", "h82"}

\* C30: the refcnt of every node is non-negative, it is never smaller than
\* the number of Combined instances whose head is the node, and it is that
\* number whenever no thread is inside updateHead; in particular the
\* constructor leaves in the sentinel's refcnt the number of Combined
\* instances that it initialised with the sentinel as head.
C30_RefCount ==
    Legit => \A n \in Nodes :
        /\ refcnt[n] >= 0
        /\ refcnt[n] >= HeadCount(n)
        /\ (\A t \in CxTids : ~InUpdateHead(t)) => refcnt[n] = HeadCount(n)

\* No thread is inside updateHead, and the heads have moved: a node other
\* than the sentinel is the head of a Combined, and fewer Combined instances
\* than at construction have the sentinel as head.
C30_Witness ==
    /\ Legit
    /\ \A t \in CxTids : ~InUpdateHead(t)
    /\ \E n \in Nodes \ {sentinel} : refcnt[n] >= 1 /\ HeadCount(n) >= 1
    /\ HeadCount(sentinel) < Cardinality(DOMAIN head)
    /\ refcnt[sentinel] >= 1

(***************************************************************************)
(* C31.  The transitions of writerState.                                   *)
(***************************************************************************)
\* The five transitions of the header comment of StrongTryRIRWLock.
LockTransition(a, b) ==
    \/ a.state = NOLOCK /\ b.state = HLOCK /\ b.seq = a.seq + 1
    \/ a.state = HLOCK /\ b.state = WLOCK /\ b.seq = a.seq
    \/ a.state = HLOCK /\ b.state = NOLOCK /\ b.seq = a.seq
    \/ a.state = WLOCK /\ b.state = RLOCK /\ b.seq = a.seq
    \/ a.state = RLOCK /\ b.state = NOLOCK /\ b.seq = a.seq

\* The lock on which thread t is about to execute the load and the plain
\* store of exclusiveUnlock, downgrade or setReadUnlock, NULL when it is not
\* at one.
StorePending(t) ==
    CASE pc[t] \in {"u230", "u239", "u257", "u282"} -> L[t].newComb
      [] pc[t] = "u238" /\ L[t].mn = NULL -> L[t].newComb
      [] pc[t] = "u201" -> L[t].lk
      [] pc[t] = "u269" -> L[t].lcomb
      [] OTHER -> NULL

\* C31: every change of a lock's (seq, state) word after construction is one
\* of the five transitions of the header comment, so seq never decreases and
\* changes only from NOLOCK to HLOCK; and while a thread is between the load
\* and the plain store of downgrade, exclusiveUnlock or setReadUnlock, no
\* other thread changes the word.
C31_Transitions ==
    [][Legit => \A c \in DOMAIN wstate :
          wstate'[c] # wstate[c] =>
             /\ LockTransition(wstate[c], wstate'[c])
             /\ \A t \in CxTids : StorePending(t) = c => pc'[t] # pc[t]]_vars

\* A thread is between the load and the plain store of downgrade,
\* exclusiveUnlock or setReadUnlock on a lock that it acquired through HLOCK
\* and WLOCK, while another thread is inside a try-lock on the same lock.
C31_Witness ==
    /\ Legit
    /\ \E t \in CxTids : \E u \in CxTids \ {t} :
          /\ StorePending(t) # NULL
          /\ wstate[StorePending(t)].seq >= 1
          /\ wstate[StorePending(t)].state \in {WLOCK, RLOCK}
          /\ pc[u] \in TryPcs
          /\ L[u].lk = StorePending(t)

(***************************************************************************)
(* C32.  What follows a successful CAS of curComb.                         *)
(***************************************************************************)
\* Thread t executes the store of CircularArray::add.
Adds(t) == pc[t] \in {"u274", "c62"} /\ ring'[t].size > ring[t].size

\* The entry that the store of add has written.
Added(t) ==
    ring'[t].arr[(ring'[t].begin + ring'[t].size - 1) % max_size]

\* The successful CAS of line 268 by thread t: newComb, whose head is mn and
\* whose lock is in RLOCK, replaces lcomb, whose lock is in RLOCK.
PublishCas(t) ==
    (pc[t] = "u268" /\ pc'[t] = "u269") =>
       /\ curComb = L[t].lcomb
       /\ curComb' = L[t].newComb
       /\ head[L[t].newComb] = L[t].mn
       /\ wstate[L[t].newComb].state = RLOCK
       /\ wstate'[L[t].newComb].state = RLOCK
       /\ wstate[L[t].lcomb].state = RLOCK

\* setReadUnlock of line 269, and the start of the loop of lines 273-277 at
\* the head of lcomb.
PublishUnlock(t) ==
    /\ (pc[t] = "u269" /\ pc'[t] # "u269") =>
          /\ wstate[L[t].lcomb].state = RLOCK
          /\ wstate'[L[t].lcomb].state = NOLOCK
    /\ (pc[t] = "u271" /\ pc'[t] # "u271") =>
          /\ L'[t].node = head[L[t].lcomb]
          /\ ticket[head[L[t].lcomb]] <= ticket[L[t].mn]
          /\ pc'[t] = "uret" <=> head[L[t].lcomb] = L[t].mn

\* The loop of lines 273-277: the node added is the node the loop is at, the
\* loop goes on with the node of the next ticket, and ends before mn.
PublishRetire(t) ==
    /\ ring'[t].size > ring[t].size => Adds(t) /\ L[t].path = "cas"
    /\ Adds(t) =>
          LET n == L[t].node
              nx == next[n] IN
          /\ Added(t) = n
          /\ ticket[n] < ticket[L[t].mn]
          /\ nx \notin {NULL, n}
          /\ ticket[nx] = ticket[n] + 1
          /\ IF nx = L[t].mn
             THEN pc'[t] = "uret"
             ELSE pc'[t] = "u274" /\ L'[t].node = nx

FinalResult(n) == MutationResult(n, LogBelow(ticket[n]))

\* Thread t returns from applyUpdate because it read done in its node: at
\* line 864 after getNewComb returned nullptr, or at line 879 in the walk.
DoneReturn(t) ==
    /\ pc'[t] = "idle"
    /\ L[t].myNode \in nodeDone
    /\ \/ pc[t] = "t864"
       \/ pc[t] = "t875" /\ head[L[t].newComb] = NULL

\* Every lock that is not free is the lock of curComb or the lock of a
\* thread that is inside applyUpdate with it.
LocksAccounted ==
    \A c \in DOMAIN wstate :
       wstate[c].state # NOLOCK =>
          \/ c = curComb /\ wstate[c].state = RLOCK
          \/ \E u \in TimedTids :
                \/ pc[u] \in {"t868", "t875", "t901"} /\ L[u].newComb = c
                \/ pc[u] \in ExclusiveTryPcs /\ L[u].lk = c

LinkedOwner(a) == enqTid(next'[a])

\* C34: the scan of the request slots starts one past the slot of the owner
\* of the tail and goes round, so when a node is linked at most
\* maxThreads - 1 other nodes were linked since its publication in
\* enqueuers[tid]; and while it is published and not yet linked, no more
\* than that were.
C34_RoundRobin ==
    /\ [](Legit => \A t \in CxTids :
            (pc[t] \in EnqPcs /\ ticket[L[t].myNode] = 0
               /\ \A a \in Nodes : next[a] # L[t].myNode) =>
                  LinkedCount - L[t].pubAt <= maxThreads - 1)
    /\ [][Legit => \A a \in Nodes :
            Links(a) =>
               /\ pc[LinkedOwner(a)] \in EnqPcs
               /\ L[LinkedOwner(a)].myNode = next'[a]
               /\ LinkedCount - L[LinkedOwner(a)].pubAt <= maxThreads - 1]_vars

\* A published node is not linked yet, and a node published after it has
\* been linked before it.
C34_Witness ==
    /\ Legit
    /\ \E t \in CxTids :
          /\ pc[t] \in EnqPcs
          /\ enqueuers[t] = L[t].myNode
          /\ \A a \in Nodes : next[a] # L[t].myNode
          /\ LinkedCount - L[t].pubAt = maxThreads - 1
          /\ \E u \in CxTids \ {t} : L[u].pubAt > L[t].pubAt

(***************************************************************************)
(* C35.  applyUpdate gives up its walk.                                    *)
(***************************************************************************)
\* Thread t has taken the branch of line 237: it met a null or self-linked
\* node after having copied a replica, or getCombined returned nullptr; it
\* is at lines 238-240 or at the return that follows.
Abandons(t) ==
    \/ pc[t] \in {"u238", "u239"}
    \/ pc[t] \in {"h81", "h82"} /\ L[t].hret = "u239"
    \/ pc[t] \in {"u200", "u201", "uret"} /\ L[t].path = "nopeer"

\* C35: when applyUpdate gives up its walk, at a self-linked node after one
\* copy of a replica or because getCombined returned no Combined, curComb
\* already designates a Combined whose head has a ticket greater than or
\* equal to the ticket of the caller, and the node of the caller holds its
\* result.  Checked in the runs whose min_size exceeds maxThreads, where
\* getCombined returns no Combined, and in the runs of min_size 1, where
\* the walk also ends at a self-linked node after a copy.
C35_Abandon ==
    Legit => \A t \in CxTids :
        Abandons(t) =>
           /\ ticket[head[curComb]] >= L[t].myTicket
           /\ result[L[t].myNode] = FinalResult(L[t].myNode)

\* With a min_size above maxThreads, applyUpdate is about to return after
\* getCombined found no Combined to copy.
C35_Witness ==
    /\ Legit
    /\ \A t \in CxTids : ring[t].min_size > maxThreads
    /\ \E t \in CxTids :
          /\ pc[t] = "uret"
          /\ L[t].path = "nopeer"
          /\ L[t].lcomb = NULL
          /\ result[L[t].myNode] # Unwritten

(***************************************************************************)
(* C36.  The head of curComb only moves forward.                           *)
(***************************************************************************)
\* C36: the ticket of the head of the Combined that curComb designates never
\* decreases, and every successful CAS of curComb installs a Combined whose
\* head has a greater ticket than the head of the Combined it replaces.
C36_HeadTicketGrows ==
    [][Legit =>
          /\ ticket'[head'[curComb']] >= ticket[head[curComb]]
          /\ curComb' # curComb =>
                /\ ticket'[head'[curComb']] > ticket[head[curComb]]
                /\ \E t \in CxTids : /\ pc[t] = "u268" /\ pc'[t] = "u269"
                                     /\ curComb = L[t].lcomb
                                     /\ curComb' = L[t].newComb]_vars

\* A thread has just replaced a Combined that was itself installed by a CAS.
C36_Witness ==
    /\ Legit
    /\ \E t \in CxTids :
          /\ pc[t] = "u269"
          /\ curComb = L[t].newComb
          /\ ticket[head[L[t].lcomb]] >= 1
          /\ ticket[head[curComb]] > ticket[head[L[t].lcomb]] + 1

(***************************************************************************)
(* C37.  The Combined that curComb designates.                             *)
(***************************************************************************)
\* C37: curComb always designates a Combined of the pool whose obj and head
\* are not null and whose lock is in RLOCK, and no step changes the obj or
\* the head of the Combined that curComb designates before or after it.
C37_Current ==
    /\ [](Legit => /\ curComb \in Combs
                   /\ head[curComb] # NULL
                   /\ obj[curComb] # NullObj
                   /\ wstate[curComb].state = RLOCK)
    /\ [][Legit => /\ head'[curComb] = head[curComb]
                   /\ obj'[curComb] = obj[curComb]
                   /\ head'[curComb'] = head[curComb']
                   /\ obj'[curComb'] = obj[curComb']]_vars

\* The Combined of the constructor is no longer current, and a writer that
\* holds it exclusively is applying a node to its obj.
C37_Witness ==
    /\ Legit
    /\ curComb # 0
    /\ wstate[0].state = WLOCK
    /\ \E t \in CxTids : pc[t] = "u252" /\ L[t].newComb = 0

(***************************************************************************)
(* C38.  What a call leaves in the locks when it returns.                  *)
(***************************************************************************)
\* A thread inside applyUpdate or applyRead works on Combined c: c is its
\* newComb (combs[i] when exclusiveTryLock has just returned true), or the
\* lcomb that it locks, has locked or is unlocking.
WorksOn(t, c) ==
    /\ pc[t] # "idle"
    /\ \/ c \in {L[t].newComb, L[t].lcomb, L[t].lk}
       \/ pc[t] = "u228" /\ c = L[t].i

\* The slots of the read indicators of a thread that is in no call, and the
\* locks in WLOCK or RLOCK.
NothingHeld ==
    /\ \A t \in CxTids : \A c \in Combs :
          pc[t] = "idle" => ri[c][t] = NOT_READING
    /\ \A c \in Combs :
          /\ wstate[c].state = WLOCK => \E t \in CxTids : WorksOn(t, c)
          /\ wstate[c].state = RLOCK =>
                c = curComb \/ \E t \in CxTids : WorksOn(t, c)

\* C38 as stated: when applyUpdate or applyRead returns, the slot of the
\* thread in the read indicator of every lock is NOT_READING, no lock stays
\* in WLOCK for the thread, and the only lock that a returned call leaves in
\* a state other than NOLOCK is the one of the Combined it installed as
\* curComb, in RLOCK.
C38_Returns ==
    [](Legit =>
         /\ NothingHeld
         /\ \A c \in Combs :
               wstate[c].state = HLOCK => \E t \in CxTids : pc[t] # "idle")

\* C38 amended: as above, except that a call may also leave in HLOCK a lock
\* on which its exclusiveTryLock failed after the CAS of line 186.
C38_ReturnsAmended ==
    /\ [](Legit => NothingHeld)
    /\ [][Legit => \A c \in Combs :
            (wstate[c].state # HLOCK /\ wstate'[c].state = HLOCK) =>
               \E t \in CxTids : pc[t] = "x186" /\ L[t].lk = c]_vars

\* Every call has returned, and a lock on which an exclusiveTryLock failed
\* is in HLOCK.
C38_Witness ==
    /\ Legit
    /\ \A t \in CxTids : pc[t] = "idle"
    /\ \E c \in Combs : wstate[c].state = HLOCK
    /\ wstate[curComb].state = RLOCK
    /\ \E c \in Combs \ {curComb} : wstate[c].seq >= 1 /\ wstate[c].state = NOLOCK

(***************************************************************************)
(* Retirement and the walker's hazard pointer (WalkSpec).                  *)
(***************************************************************************)
\* Node n is in the retired list of some thread.
InRetired(n) == \E t \in DOMAIN retired : n \in Range(retired[t])

\* Thread t holds n as the successor that it protected in slot kHpHead and
\* validated with the test of line 251, and has not overwritten the slot.
HoldsSuccessor(t, n) ==
    /\ n # NULL
    /\ hp[t][kHpHead] = n
    /\ \/ pc[t] = "u252" /\ L[t].lnext = n
       \/ pc[t] \in {"u236", "u250", "u250h"} /\ L[t].mn = n
                                               /\ hp[t][kHpNext] = n

\* C39: a node enters a retired list, or is deleted without having been in
\* one, only in the step of CircularArray::clean that self-links the node's
\* predecessor, or during the destruction; and a node that a walker holds
\* through its validated hazard pointer of slot kHpHead is not deleted.
C39_RetireAfterTombstone ==
    /\ [](Legit /\ proc = "run" =>
            \A t \in CxTids : \A n \in Nodes :
                HoldsSuccessor(t, n) => mem[n] = "live")
    /\ [][Legit =>
            \A n \in Nodes :
               (/\ ~InRetired(n)
                /\ InRetired(n)' \/ (mem[n] = "live" /\ mem'[n] # "live")) =>
                  \/ proc = "dtor"
                  \/ \E t \in CxTids :
                        /\ pc[t] = "c67"
                        /\ L[t].cnext = n
                        /\ next[L[t].mNode] = n
                        /\ next'[L[t].mNode] = L[t].mNode]_vars

\* A walker holds a validated successor that is in a retired list, is
\* self-linked and has no reference count: only hazard pointers keep it.
C39_Witness ==
    /\ Legit /\ proc = "run"
    /\ \E t \in CxTids : \E n \in Nodes :
          /\ HoldsSuccessor(t, n)
          /\ InRetired(n)
          /\ SelfLinked(n)
          /\ refcnt[n] = 0

(***************************************************************************)
(* C40.  The ticket lag of the nodes that a ring unlinks (RingSpec).       *)
(***************************************************************************)
CleanPcs == {"c62", "c66", "c67", "r142", "r146", "r151"}

\* The j-th entry that the ring of thread t holds, from the oldest on; during
\* clean the first L[t].ci entries have been removed already.
RingEntry(t, j) ==
    LET off == IF pc[t] \in CleanPcs THEN L[t].ci ELSE 0 IN
    ring[t].arr[(ring[t].begin + off + j) % max_size]

\* clean has stored mNode->next = mNode for the oldest entry and has not yet
\* counted it out (size--).
Unlinking(t) == pc[t] \in {"r142", "r146", "r151"}

\* C40: the next of a node is set to the node itself only by the clean of
\* the ring that holds the node as its oldest entry, within add(node) for a
\* node that curComb has passed, whose ticket is at least min_size above
\* the ticket of the unlinked node and above the ticket of every entry of
\* the ring; the entries of a ring have growing tickets and, but for the one
\* that clean is removing, are not self-linked, so that the nodes of a ring
\* whose ticket is less than min_size below its newest are walkable.
C40_TicketLag ==
    /\ [](Legit =>
            \A t \in CxTids : \A j \in 0 .. (ring[t].size - 1) :
                /\ (j = 0 /\ Unlinking(t)) \/ ~SelfLinked(RingEntry(t, j))
                /\ \A k \in 0 .. (j - 1) :
                      ticket[RingEntry(t, k)] < ticket[RingEntry(t, j)])
    /\ [][Legit =>
            \A m \in Nodes :
               (next[m] # m /\ next'[m] = m) =>
                  \E t \in CxTids :
                     /\ pc[t] = "c67"
                     /\ m = L[t].mNode
                     /\ m = RingEntry(t, 0)
                     /\ ticket[L[t].node] >= ticket[m] + ring[t].min_size
                     /\ ticket[L[t].node] < ticket[head[curComb]]
                     /\ \A j \in 0 .. (ring[t].size - 1) :
                           ticket[RingEntry(t, j)] < ticket[L[t].node]]_vars

\* clean has unlinked a node other than the sentinel whose ticket is exactly
\* min_size below the ticket of the node that add is storing, and the ring
\* holds a younger entry.
C40_Witness ==
    /\ Legit
    /\ \E t \in CxTids :
          /\ Unlinking(t)
          /\ L[t].mNode # sentinel
          /\ SelfLinked(L[t].mNode)
          /\ ticket[L[t].node] = ticket[L[t].mNode] + ring[t].min_size
          /\ ring[t].size >= 2

=============================================================================
